---- MODULE Spec2Model ----
(***************************************************************************)
(* Model of frontend/app/components/MarkdownRenderer.js                    *)
(* (src/unnamed/part_002).                                                 *)
(*                                                                         *)
(* A string is a sequence of one-character strings.  The cursor i and all  *)
(* line indices are 0-based as in the source; lines[i] of the source is    *)
(* LineAt(i) here.  One action is one iteration of renderMarkdown's outer  *)
(* while loop (one branch of it, inner loop included).                     *)
(***************************************************************************)
EXTENDS Integers, Sequences, FiniteSets, TLC

\* content, lines, i, keyIndex and elements are the source's; output is what
\* the component returns; pc is the position in it ("start", "loop", "done",
\* and "error" after a TypeError).  consumed is a history variable: for each
\* entry of elements, the cursor before and after the iteration that pushed
\* it, i.e. the lines [from, to) the entry was made from.
VARIABLES content, lines, i, keyIndex, elements, consumed, pc, output

\* A history variable: the number of iterations of the outer loop so far.
VARIABLE iterations

\* One call of renderInline, step by step: text is its argument, remaining,
\* parts and idx are the source's, result is what it returns and ipc is the
\* position in it ("start", "loop", "exit", "done").
VARIABLES text, remaining, parts, idx, ipc, result

\* A second render of the first render's blocks written back as text: pass
\* is 1 or 2 and firstPass holds the lines and the elements of the first
\* render and whether a separator row was written after each table header.
VARIABLES pass, firstPass

\* AuthProvider: user, loading and currentClass are its useState values,
\* localStorage maps each key to its stored value (or Absent) and location
\* is window.location.href.  logins and fetches are the login and authFetch
\* calls whose request is in flight, issued counts the requests made.
\* opened tells that the page is open, mounted that the mount effect ran.
VARIABLES user, loading, currentClass, localStorage, location, logins,
          fetches, issued, opened, mounted

\* History variables: lastOp names the step taken last and outcome is what
\* the last finished login or authFetch call gave its caller.
VARIABLES lastOp, outcome

\* PdfUploader: file, previewing, uploading, pdfInfo, selectedPages and error
\* are its useState values; selectedPages is a Set, kept in insertion order.
\* previewRequest and uploadRequest count the requests in flight.
VARIABLES file, previewing, uploading, pdfInfo, selectedPages, error,
          previewRequest, uploadRequest

\* A history variable: the handler step taken last, with the form data it
\* sent or the way the request it handled had settled.
VARIABLE pdfOp

blockVars ==
  <<content, lines, i, keyIndex, elements, consumed, pc, output, iterations>>
inlineVars == <<text, remaining, parts, idx, ipc, result>>
roundVars == <<pass, firstPass>>
authVars ==
  <<user, loading, currentClass, localStorage, location, logins, fetches,
    issued, opened, mounted, lastOp, outcome>>
pdfVars ==
  <<file, previewing, uploading, pdfInfo, selectedPages, error,
    previewRequest, uploadRequest, pdfOp>>

vars == <<blockVars, inlineVars, roundVars, authVars, pdfVars>>

\* ------------------------------------------------------------ bounds
\* Largest number of lines of an input document.
MaxLines == 3

\* The longest line of ShortLines.
MaxLineLen == 4

\* The longest text of ShortTexts.
MaxText == 6

\* ------------------------------------------------------------ characters
NL == "\n"
SP == " "
PIPE == "|"
\* The backtick (U+0060), which a TLA+ string cannot hold.
TICK == "backtick"
STAR == "*"
HASH == "#"
DASH == "-"
COLON == ":"
\* U+2022, the third bullet marker of the source's bullet pattern.
BULLET == "bullet"

Whitespace == {SP, "\t"}
Digits == {"0", "1", "2", "3", "4", "5", "6", "7", "8", "9"}

\* ------------------------------------------------------------ string helpers
\* String.prototype.slice(n): the string without its first n characters.
Drop(s, n) == SubSeq(s, n + 1, Len(s))

\* String.prototype.startsWith
StartsWith(s, p) == Len(s) >= Len(p) /\ SubSeq(s, 1, Len(p)) = p

RECURSIVE TrimStart(_)
TrimStart(s) ==
  IF s # <<>> /\ s[1] \in Whitespace THEN TrimStart(Tail(s)) ELSE s

RECURSIVE TrimEnd(_)
TrimEnd(s) ==
  IF s # <<>> /\ s[Len(s)] \in Whitespace
    THEN TrimEnd(SubSeq(s, 1, Len(s) - 1))
    ELSE s

\* String.prototype.trim
Trim(s) == TrimEnd(TrimStart(s))

\* String.prototype.split(sep) for a one-character separator: the segments
\* between the separators, empty segments kept; never an empty result.
RECURSIVE SplitAcc(_, _, _)
SplitAcc(s, sep, cur) ==
  IF s = <<>> THEN <<cur>>
  ELSE IF s[1] = sep THEN <<cur>> \o SplitAcc(Tail(s), sep, <<>>)
  ELSE SplitAcc(Tail(s), sep, Append(cur, s[1]))

Split(s, sep) == SplitAcc(s, sep, <<>>)

\* Array.prototype.join(sep)
RECURSIVE Join(_, _)
Join(ss, sep) ==
  IF ss = <<>> THEN <<>>
  ELSE IF Len(ss) = 1 THEN ss[1]
  ELSE ss[1] \o <<sep>> \o Join(Tail(ss), sep)

\* Array.prototype.slice(1, -1)
SliceInner(a) == IF Len(a) <= 2 THEN <<>> ELSE SubSeq(a, 2, Len(a) - 1)

\* The characters of s.
Range(s) == {s[k] : k \in 1..Len(s)}


\* ------------------------------------------------------------ renderInline
\* A part of renderInline's result: a plain string, <code>, <strong> or <em>.
Part(tag, s) == [tag |-> tag, s |-> s]

\* Position of the first character of s at or after position k that is in
\* set cs; Len(s) + 1 when there is none.
RECURSIVE IndexOfFrom(_, _, _)
IndexOfFrom(s, cs, k) ==
  IF k > Len(s) THEN Len(s) + 1
  ELSE IF s[k] \in cs THEN k
  ELSE IndexOfFrom(s, cs, k + 1)

\* Mutants of CodeMatch: asterisks end the code as well, and the code runs
\* up to the last backtick.
CodeMatchNoStars(r) ==
  IF r # <<>> /\ r[1] = TICK
    THEN LET c == IndexOfFrom(r, {TICK, STAR}, 2)
         IN IF c >= 3 /\ c <= Len(r) /\ r[c] = TICK THEN c ELSE 0
    ELSE 0
CodeMatchGreedy(r) ==
  IF r # <<>> /\ r[1] = TICK /\ \E c \in 3..Len(r) : r[c] = TICK
    THEN CHOOSE c \in 3..Len(r) :
           r[c] = TICK /\ \A m \in (c + 1)..Len(r) : r[m] # TICK
    ELSE 0

\* remaining.match(/^`([^`]+)`/): the length of the match, 0 for no match.
CodeMatch(r) ==
  IF r # <<>> /\ r[1] = TICK
    THEN LET c == IndexOfFrom(r, {TICK}, 2)
         IN IF c >= 3 /\ c <= Len(r) THEN c ELSE 0
    ELSE 0

\* Mutant of BoldMatch: single asterisks are allowed inside, /^\*\*(.+?)\*\*/.
BoldMatchLazy(r) ==
  IF Len(r) >= 2 /\ r[1] = STAR /\ r[2] = STAR
       /\ \E c \in 4..(Len(r) - 1) : r[c] = STAR /\ r[c + 1] = STAR
    THEN (CHOOSE c \in 4..(Len(r) - 1) :
            /\ r[c] = STAR /\ r[c + 1] = STAR
            /\ \A m \in 4..(c - 1) : ~(r[m] = STAR /\ r[m + 1] = STAR)) + 1
    ELSE 0

\* remaining.match(/^\*\*([^*]+)\*\*/): the length of the match, 0 for none.
BoldMatch(r) ==
  IF Len(r) >= 2 /\ r[1] = STAR /\ r[2] = STAR
    THEN LET c == IndexOfFrom(r, {STAR}, 3)
         IN IF c >= 4 /\ c + 1 <= Len(r) /\ r[c + 1] = STAR THEN c + 1 ELSE 0
    ELSE 0

\* remaining.match(/^\*([^*]+)\*/): the length of the match, 0 for none.
ItalicMatch(r) ==
  IF r # <<>> /\ r[1] = STAR
    THEN LET c == IndexOfFrom(r, {STAR}, 2)
         IN IF c >= 3 /\ c <= Len(r) THEN c ELSE 0
    ELSE 0

\* The while loop of renderInline: the parts pushed for remaining = rest.
RECURSIVE InlineParts(_)
InlineParts(rest) ==
  IF Len(rest) = 0 THEN <<>>
  ELSE IF CodeMatch(rest) > 0
    THEN LET n == CodeMatch(rest)
         IN <<Part("code", SubSeq(rest, 2, n - 1))>>
              \o InlineParts(Drop(rest, n))
  ELSE IF BoldMatch(rest) > 0
    THEN LET n == BoldMatch(rest)
         IN <<Part("strong", SubSeq(rest, 3, n - 2))>>
              \o InlineParts(Drop(rest, n))
  ELSE IF ItalicMatch(rest) > 0
    THEN LET n == ItalicMatch(rest)
         IN <<Part("em", SubSeq(rest, 2, n - 1))>>
              \o InlineParts(Drop(rest, n))
  ELSE LET nextSpecial == IndexOfFrom(rest, {TICK, STAR}, 1)
       IN IF nextSpecial > Len(rest)
            THEN <<Part("text", rest)>>
          ELSE IF nextSpecial = 1
            THEN <<Part("text", <<rest[1]>>)>>
                   \o InlineParts(Drop(rest, 1))
          ELSE <<Part("text", SubSeq(rest, 1, nextSpecial - 1))>>
                 \o InlineParts(Drop(rest, nextSpecial - 1))

\* renderInline: the empty text itself, the only part, or the array of parts.
RenderInline(txt) ==
  IF txt = <<>> THEN [kind |-> "string", parts |-> <<>>]
  ELSE LET ps == InlineParts(txt)
       IN [kind |-> IF Len(ps) = 1 THEN "node" ELSE "array", parts |-> ps]

\* ------------------------------------------------------------ inline texts
ExampleText ==
  <<STAR, STAR, "b", "o", "l", "d", STAR, STAR, SP, "a", "n", "d", SP,
    STAR, "i", "t", "a", "l", "i", "c", STAR, SP, "a", "n", "d", SP,
    TICK, "c", "o", "d", "e", TICK>>
NestedText == <<STAR, STAR, "a", STAR, "b", STAR, "c", STAR, STAR>>
BoldXText == <<STAR, STAR, "x", STAR, STAR>>

\* Every text of at most MaxText characters of InlineChars.
InlineChars == {TICK, STAR, "a"}
ShortTexts == UNION {[1..n -> InlineChars] : n \in 0..MaxText}

\* The texts renderInline is called with.
InlineTexts == ShortTexts \cup {ExampleText, NestedText, BoldXText}

\* ------------------------------------------------------------ renderInline, step by step
\* renderInline(text) is called: the empty text is returned as it is,
\* otherwise the loop starts with no parts.
InlineCall ==
  /\ ipc = "start"
  /\ \E t \in InlineTexts :
       /\ text' = t
       /\ IF t = <<>>
            THEN /\ result' = [kind |-> "string", parts |-> <<>>]
                 /\ ipc' = "done"
                 /\ UNCHANGED <<remaining, parts, idx>>
            ELSE /\ parts' = <<>>
                 /\ remaining' = t
                 /\ idx' = 0
                 /\ ipc' = "loop"
                 /\ UNCHANGED <<result>>
  /\ UNCHANGED <<blockVars, roundVars, authVars, pdfVars>>

\* while (remaining.length > 0)
InInlineLoop == ipc = "loop" /\ Len(remaining) > 0

\* Mutant of PushSpan: one character more is sliced off remaining.
PushSpanSkipsOne(tag, n, d) ==
  /\ parts' = Append(parts, Part(tag, SubSeq(remaining, d + 1, n - d)))
  /\ idx' = idx + 1
  /\ remaining' = Drop(remaining, n + 1)
  /\ UNCHANGED <<text, ipc, result>>

\* A matched span of n characters with delimiters of d characters is pushed
\* as an element with key idx++ and sliced off remaining.
PushSpan(tag, n, d) ==
  /\ parts' = Append(parts, Part(tag, SubSeq(remaining, d + 1, n - d)))
  /\ idx' = idx + 1
  /\ remaining' = Drop(remaining, n)
  /\ UNCHANGED <<text, ipc, result>>

\* if (codeMatch) { ... continue; }
CodeSpan ==
  /\ InInlineLoop
  /\ CodeMatch(remaining) > 0
  /\ PushSpan("code", CodeMatch(remaining), 1)
  /\ UNCHANGED <<blockVars, roundVars, authVars, pdfVars>>

\* if (boldMatch) { ... continue; }
BoldSpan ==
  /\ InInlineLoop
  /\ CodeMatch(remaining) = 0
  /\ BoldMatch(remaining) > 0
  /\ PushSpan("strong", BoldMatch(remaining), 2)
  /\ UNCHANGED <<blockVars, roundVars, authVars, pdfVars>>

\* if (italicMatch) { ... continue; }
ItalicSpan ==
  /\ InInlineLoop
  /\ CodeMatch(remaining) = 0
  /\ BoldMatch(remaining) = 0
  /\ ItalicMatch(remaining) > 0
  /\ PushSpan("em", ItalicMatch(remaining), 1)
  /\ UNCHANGED <<blockVars, roundVars, authVars, pdfVars>>

\* None of the three patterns matches at the start of remaining.
NoSpanMatch ==
  /\ CodeMatch(remaining) = 0
  /\ BoldMatch(remaining) = 0
  /\ ItalicMatch(remaining) = 0

\* remaining.search(/[`*]/): the 0-based index of the first backtick or
\* asterisk, -1 when there is none.
NextSpecial(r) ==
  LET k == IndexOfFrom(r, {TICK, STAR}, 1)
  IN IF k > Len(r) THEN -1 ELSE k - 1

\* nextSpecial === -1: the rest is pushed as text and the loop is left.
PlainRest ==
  /\ InInlineLoop
  /\ NoSpanMatch
  /\ NextSpecial(remaining) = -1
  /\ parts' = Append(parts, Part("text", remaining))
  /\ ipc' = "exit"
  /\ UNCHANGED <<text, remaining, idx, result>>
  /\ UNCHANGED <<blockVars, roundVars, authVars, pdfVars>>

\* Mutant of SingleSpecial: the whole rest is pushed as text.
SingleSpecialSwallows ==
  /\ InInlineLoop
  /\ NoSpanMatch
  /\ NextSpecial(remaining) = 0
  /\ parts' = Append(parts, Part("text", remaining))
  /\ remaining' = <<>>
  /\ UNCHANGED <<text, idx, ipc, result>>
  /\ UNCHANGED <<blockVars, roundVars, authVars, pdfVars>>

\* nextSpecial === 0: the special character is pushed as text.
SingleSpecial ==
  /\ InInlineLoop
  /\ NoSpanMatch
  /\ NextSpecial(remaining) = 0
  /\ parts' = Append(parts, Part("text", <<remaining[1]>>))
  /\ remaining' = Drop(remaining, 1)
  /\ UNCHANGED <<text, idx, ipc, result>>
  /\ UNCHANGED <<blockVars, roundVars, authVars, pdfVars>>

\* Mutant of PlainRun: the pushed text is not sliced off remaining.
PlainRunKeepsRemaining ==
  /\ InInlineLoop
  /\ NoSpanMatch
  /\ NextSpecial(remaining) > 0
  /\ parts' = Append(parts, Part("text", SubSeq(remaining, 1, NextSpecial(remaining))))
  /\ UNCHANGED <<text, remaining, idx, ipc, result>>
  /\ UNCHANGED <<blockVars, roundVars, authVars, pdfVars>>

\* else: the text before the next special character is pushed.
PlainRun ==
  /\ InInlineLoop
  /\ NoSpanMatch
  /\ NextSpecial(remaining) > 0
  /\ parts' = Append(parts, Part("text", SubSeq(remaining, 1, NextSpecial(remaining))))
  /\ remaining' = Drop(remaining, NextSpecial(remaining))
  /\ UNCHANGED <<text, idx, ipc, result>>
  /\ UNCHANGED <<blockVars, roundVars, authVars, pdfVars>>

\* return parts.length === 1 ? parts[0] : parts
InlineReturn ==
  /\ \/ ipc = "exit"
     \/ ipc = "loop" /\ Len(remaining) = 0
  /\ result' = [kind |-> IF Len(parts) = 1 THEN "node" ELSE "array",
                parts |-> parts]
  /\ ipc' = "done"
  /\ UNCHANGED <<text, remaining, parts, idx>>
  /\ UNCHANGED <<blockVars, roundVars, authVars, pdfVars>>

InlineNext ==
  \/ InlineCall
  \/ CodeSpan
  \/ BoldSpan
  \/ ItalicSpan
  \/ PlainRest
  \/ SingleSpecial
  \/ PlainRun
  \/ InlineReturn

\* ------------------------------------------------------------ renderTable
\* line.trim().match(/^\|[-:\s|]+\|$/)
IsSeparatorRow(line) ==
  LET t == Trim(line)
  IN /\ Len(t) >= 3
     /\ t[1] = PIPE
     /\ t[Len(t)] = PIPE
     /\ \A k \in 2..(Len(t) - 1) : t[k] \in ({DASH, COLON, PIPE} \cup Whitespace)

\* tableLines.filter(line => !line.trim().match(...))
RECURSIVE DataLines(_)
DataLines(tableLines) ==
  IF tableLines = <<>> THEN <<>>
  ELSE IF ~IsSeparatorRow(tableLines[1])
    THEN <<tableLines[1]>> \o DataLines(Tail(tableLines))
  ELSE DataLines(Tail(tableLines))

\* line.split('|').slice(1, -1).map(cell => cell.trim())
Cells(line) ==
  LET inner == SliceInner(Split(line, PIPE))
  IN [k \in 1..Len(inner) |-> Trim(inner[k])]

TableRows(tableLines) ==
  LET kept == DataLines(tableLines)
  IN [r \in 1..Len(kept) |-> Cells(kept[r])]

\* row.map(cell => <th>/<td>{renderInline(cell)}</...>)
RenderCells(row) == [k \in 1..Len(row) |-> RenderInline(row[k])]

\* What renderTable returns when no row is left.
NullNode == [type |-> "null"]

RenderTable(tableLines, key) ==
  LET rows == TableRows(tableLines)
  IN IF Len(rows) = 0 THEN NullNode
     ELSE [type |-> "table", key |-> key,
           header |-> RenderCells(rows[1]),
           body |-> [r \in 1..(Len(rows) - 1) |-> RenderCells(rows[r + 1])]]

\* ------------------------------------------------------------ input documents
RowLine == <<SP, PIPE, SP, "a", PIPE, "b", PIPE>>
SepLine == <<PIPE, DASH, PIPE, COLON, DASH, PIPE>>
OpenRowLine == <<PIPE, "a", PIPE, "b">>
OpenSepLine == <<PIPE, DASH, PIPE, DASH>>
FenceLine == <<TICK, TICK, TICK>>
InfoFenceLine == <<SP, TICK, TICK, TICK, "a">>
H1Line == <<HASH, SP, "a">>
H2Line == <<HASH, HASH, SP, "a">>
H3Line == <<HASH, HASH, HASH, SP, "a">>
DashItemLine == <<DASH, SP, "a">>
ParenItemLine == <<SP, "1", "2", ")", SP, "b">>
EmptyLine == <<>>
SpaceLine == <<SP>>
TextLine == <<SP, "a", SP>>
MarkupLine == <<STAR, "a", STAR, TICK, "b">>
H4Line == <<HASH, HASH, HASH, HASH, SP, "a">>
IndentedHashLine == <<SP, HASH, SP, "a">>
StarItemLine == <<SP, STAR, SP, "b", SP>>
BulletItemLine == <<BULLET, "\t", "c">>
DashOnlyLine == <<DASH, SP>>
DotItemLine == <<"1", ".", SP, "a">>

\* The lines a document is made of: at least one line for every branch of
\* the outer loop, and table rows with and without a closing pipe.
LineSet ==
  {RowLine, SepLine, OpenRowLine, OpenSepLine, FenceLine, InfoFenceLine,
   H1Line, H2Line, H3Line, DashItemLine, ParenItemLine, EmptyLine, SpaceLine,
   TextLine, MarkupLine}

\* Lines that each block matcher accepts, next to lines that just miss it:
\* four '#', whitespace before '#', a list marker with nothing after it.
MatcherLineSet ==
  {H1Line, H3Line, H4Line, IndentedHashLine, StarItemLine, BulletItemLine,
   DashOnlyLine, DotItemLine, ParenItemLine, RowLine, FenceLine, EmptyLine}

\* Every line of at most MaxLineLen characters of LineChars: the first
\* characters the block matchers look at, in every arrangement.
LineChars == {SP, PIPE, TICK, HASH, DASH, "1", ".", "a"}
ShortLines == UNION {[1..n -> LineChars] : n \in 0..MaxLineLen}

\* The documents of at most MaxLines lines of lineSet.
DocumentsOf(lineSet) == UNION {[1..n -> lineSet] : n \in 0..MaxLines}
Documents == DocumentsOf(LineSet)

\* The content prop: null (or undefined), or a string.
NullContent == [isNull |-> TRUE, chars |-> <<>>]
StringContent(s) == [isNull |-> FALSE, chars |-> s]

ContentsOf(documents) ==
  {NullContent} \cup {StringContent(Join(d, NL)) : d \in documents}
Contents == ContentsOf(Documents)

\* Lines for every kind of block, with inline markup and with table rows
\* with and without a closing pipe.
RoundLineSet ==
  {RowLine, SepLine, OpenSepLine, FenceLine, InfoFenceLine, H2Line,
   StarItemLine, ParenItemLine, SpaceLine, TextLine, MarkupLine}
RoundContents == ContentsOf(DocumentsOf(RoundLineSet))
MatcherContents ==
  ContentsOf(DocumentsOf(MatcherLineSet) \cup {<<line>> : line \in ShortLines})

\* ------------------------------------------------------------ state
\* lines[j] of the source; undefined outside the array.
Undefined == <<"undefined">>
LineAt(j) == IF j >= 0 /\ j < Len(lines) THEN lines[j + 1] ELSE Undefined

\* Mutant of Falsy: only null is tested, the empty string is rendered.
FalsyNullOnly(c) == c.isNull

\* !content
Falsy(c) == c.isNull \/ c.chars = <<>>

Pending == [kind |-> "pending"]
NullOutput == [kind |-> "null"]
Container(children) == [kind |-> "div", children |-> children]

\* ------------------------------------------------- AuthProvider values

\* The most requests (login and authFetch calls together) made on one page.
MaxRequests == 2

\* useState(null): no user, no class.
NullUser == [isNull |-> TRUE, id |-> "", email |-> "", name |-> ""]
NullClass == [isNull |-> TRUE, id |-> ""]

\* The accounts of the server, the tokens it hands out and the classes a
\* user can select.
Emails == {"ann", "bob"}
AccessToken(email) == IF email = "ann" THEN "t1" ELSE "t2"
RefreshToken == "r1"
ClassData == {[isNull |-> FALSE, id |-> "c1"]}

\* The body of a successful login response for an account.
LoginData(email) ==
  [user_id |-> IF email = "ann" THEN "1" ELSE "2",
   email |-> email,
   name |-> IF email = "ann" THEN "Ann" ELSE "Bob",
   access_token |-> <<AccessToken(email)>>,
   refresh_token |-> <<RefreshToken>>]

\* userData as login builds it from the response.
UserData(data) ==
  [isNull |-> FALSE, id |-> data.user_id, email |-> data.email,
   name |-> data.name]

\* JSON.stringify and JSON.parse of a user and of a class, as text.
StringifyUser(u) == <<"{", u.id, u.email, u.name, "}">>
ParseUser(s) == [isNull |-> FALSE, id |-> s[2], email |-> s[3], name |-> s[4]]
StringifyClass(c) == <<"{", c.id, "}">>
ParseClass(s) == [isNull |-> FALSE, id |-> s[2]]

\* localStorage: the keys the provider uses; a key is absent (getItem gives
\* null) or holds a string.
Keys == {"user", "access_token", "refresh_token", "current_class"}
Absent == [present |-> FALSE, value |-> <<>>]
Stored(v) == [present |-> TRUE, value |-> v]
EmptyStorage == [k \in Keys |-> Absent]
GetItem(store, key) == store[key]
SetItem(store, key, v) == [store EXCEPT ![key] = Stored(v)]
RemoveItem(store, key) == [store EXCEPT ![key] = Absent]

\* A value of getItem in a condition: null and the empty string are falsy.
Truthy(item) == item.present /\ item.value # <<>>

\* What localStorage can hold when the page is opened: what earlier visits
\* left there through login, logout and selectClass.
SavedSession(email) ==
  LET data == LoginData(email)
  IN SetItem(SetItem(SetItem(EmptyStorage,
       "user", StringifyUser(UserData(data))),
       "access_token", data.access_token),
       "refresh_token", data.refresh_token)
SavedStorages ==
  LET sessions == {EmptyStorage, SavedSession("ann")}
  IN sessions \cup
     {SetItem(st, "current_class", StringifyClass(c)) :
        st \in sessions, c \in ClassData}

\* What a login or authFetch call gave its caller, with the status of the
\* response it had; NoOutcome before any did.
\* raced is history: for authFetch, a login stored a session while the
\* request was in flight and its user was still there when the response
\* came; for login, logout ran while the request was in flight.
NoOutcome ==
  [call |-> "none", id |-> 0, kind |-> "none", error |-> "",
   message |-> <<>>, status |-> 0, raced |-> FALSE]
Returned(call, id, status, raced) ==
  [call |-> call, id |-> id, kind |-> "returned", error |-> "",
   message |-> <<>>, status |-> status, raced |-> raced]
Threw(call, id, errorName, message, status) ==
  [call |-> call, id |-> id, kind |-> "threw", error |-> errorName,
   message |-> message, status |-> status, raced |-> FALSE]

\* --------------------------------------------------- PdfUploader values

\* The most pages of a previewed PDF, and the most requests of one kind in
\* flight at a time.
MaxPages == 2
MaxInFlight == 1

\* useState(null) for file and pdfInfo; no form sent, no step taken.
NoFile == [isNull |-> TRUE, name |-> <<>>]
NoPdfInfo == [isNull |-> TRUE, total_pages |-> 0, pages |-> <<>>]
NoForm == [sent |-> FALSE, file |-> NoFile, selected_pages |-> <<>>]
NoOp == [name |-> "none", response |-> "none", formData |-> NoForm]
Op(name, settled) == [name |-> name, response |-> settled, formData |-> NoForm]

\* Before the component is called no content has been passed.
Init ==
  /\ content = NullContent
  /\ lines = <<>>
  /\ i = 0
  /\ keyIndex = 0
  /\ elements = <<>>
  /\ consumed = <<>>
  /\ pc = "start"
  /\ output = Pending
  /\ iterations = 0
  /\ text = <<>>
  /\ remaining = <<>>
  /\ parts = <<>>
  /\ idx = 0
  /\ ipc = "start"
  /\ result = Pending
  /\ pass = 1
  /\ firstPass = [lines |-> <<>>, elements |-> <<>>, separator |-> FALSE]
  /\ user = NullUser
  /\ loading = TRUE
  /\ currentClass = NullClass
  /\ localStorage = EmptyStorage
  /\ location = "/"
  /\ logins = {}
  /\ fetches = {}
  /\ issued = 0
  /\ opened = FALSE
  /\ mounted = FALSE
  /\ lastOp = "none"
  /\ outcome = NoOutcome
  /\ file = NoFile
  /\ previewing = FALSE
  /\ uploading = FALSE
  /\ pdfInfo = NoPdfInfo
  /\ selectedPages = <<>>
  /\ error = <<>>
  /\ previewRequest = 0
  /\ uploadRequest = 0
  /\ pdfOp = NoOp

\* MarkdownRenderer({ content }), called with some content of inputs, up to
\* the first test of the while loop.
RenderFrom(inputs) ==
  /\ pc = "start"
  /\ \E c \in inputs :
       /\ content' = c
       /\ IF Falsy(c)
            THEN /\ output' = NullOutput
                 /\ pc' = "done"
                 /\ UNCHANGED <<lines>>
            ELSE /\ lines' = Split(c.chars, NL)
                 /\ pc' = "loop"
                 /\ UNCHANGED <<output>>
  /\ UNCHANGED <<i, keyIndex, elements, consumed, iterations>>
  /\ UNCHANGED <<inlineVars, roundVars, authVars, pdfVars>>

Render == RenderFrom(Contents)
RenderMatcher == RenderFrom(MatcherContents)
RenderRound == RenderFrom(RoundContents)

\* Mutants of LoopGuard: an off-by-one bound, and a test for inequality.
LoopGuardInclusive(j) == j <= Len(lines)
LoopGuardNotEqual(j) == j # Len(lines)

\* while (i < lines.length)
LoopGuard(j) == j < Len(lines)

\* Mutant of Push: the node is put in front (unshift).
PushFront(node, to) ==
  /\ elements' = <<node>> \o elements
  /\ consumed' = <<[from |-> i, to |-> to]>> \o consumed
  /\ keyIndex' = keyIndex + 1

\* elements.push(node), with the lines [i, to) the iteration moved over.
Push(node, to) ==
  /\ elements' = Append(elements, node)
  /\ consumed' = Append(consumed, [from |-> i, to |-> to])
  /\ keyIndex' = keyIndex + 1

\* ------------------------------------------------------------ matchers
\* Mutant of IsTableLine: a pipe anywhere in the line.
IsTableLineAnywhere(line) == PIPE \in Range(line)

\* line.trim().startsWith('|')
IsTableLine(line) == StartsWith(Trim(line), <<PIPE>>)

\* Mutant of IsFenceLine: nothing may follow the three backticks.
IsFenceLineExact(line) == Trim(line) = <<TICK, TICK, TICK>>

\* line.trim().startsWith('```')
IsFenceLine(line) == StartsWith(Trim(line), <<TICK, TICK, TICK>>)

\* Mutant of HeadingLevel: the line is trimmed before the tests.
HeadingLevelTrimmed(line) ==
  IF StartsWith(Trim(line), <<HASH, HASH, HASH, SP>>) THEN 3
  ELSE IF StartsWith(Trim(line), <<HASH, HASH, SP>>) THEN 2
  ELSE IF StartsWith(Trim(line), <<HASH, SP>>) THEN 1
  ELSE 0

\* 3, 2, 1 for a line starting with '### ', '## ', '# ', else 0.
HeadingLevel(line) ==
  IF StartsWith(line, <<HASH, HASH, HASH, SP>>) THEN 3
  ELSE IF StartsWith(line, <<HASH, HASH, SP>>) THEN 2
  ELSE IF StartsWith(line, <<HASH, SP>>) THEN 1
  ELSE 0

\* t.match(/^[-*•]\s/): the length of the match, 0 for none.
BulletMatch(t) ==
  IF Len(t) >= 2 /\ t[1] \in {DASH, STAR, BULLET} /\ t[2] \in Whitespace
    THEN 2 ELSE 0

\* t.match(/^\d+[.)]\s/): the length of the match, 0 for none.
NumberedMatch(t) ==
  LET d == IndexOfFrom(t, {c \in Range(t) : c \notin Digits}, 1) - 1
  IN IF d >= 1 /\ Len(t) >= d + 2 /\ t[d + 1] \in {".", ")"}
          /\ t[d + 2] \in Whitespace
       THEN d + 2 ELSE 0

IsBulletLine(line) == BulletMatch(Trim(line)) > 0
IsNumberedLine(line) == NumberedMatch(Trim(line)) > 0

\* Mutant of IsBlankLine: the line is not trimmed before the test.
IsBlankLineUntrimmed(line) == line = <<>>

\* line.trim() === ''
IsBlankLine(line) == Trim(line) = <<>>

\* ------------------------------------------------------------ renderMarkdown
\* One iteration of the outer loop is entered (and counted).
InLoop ==
  /\ pc = "loop"
  /\ LoopGuard(i)
  /\ iterations' = iterations + 1

\* Mutant of TableEnd: the inner loop does not move the cursor.
TableEndStuck(j) == j

\* while (i < lines.length && lines[i].trim().startsWith('|')) i++
RECURSIVE TableEnd(_)
TableEnd(j) ==
  IF j < Len(lines) /\ IsTableLine(LineAt(j)) THEN TableEnd(j + 1) ELSE j

\* Mutants of TableEmits: a higher and a lower threshold.
TableEmitsFromThree(tableLines) == Len(tableLines) >= 3
TableEmitsFromOne(tableLines) == Len(tableLines) >= 1

\* if (tableLines.length >= 2)
TableEmits(tableLines) == Len(tableLines) >= 2

\* The table branch.  line.trim() is the first use of lines[i]: on undefined
\* it throws a TypeError, which ends the render.
TableBranch ==
  /\ InLoop
  /\ IF LineAt(i) = Undefined
       THEN /\ pc' = "error"
            /\ UNCHANGED <<i, keyIndex, elements, consumed>>
       ELSE /\ IsTableLine(LineAt(i))
            /\ LET end == TableEnd(i)
                   tableLines == SubSeq(lines, i + 1, end)
               IN /\ i' = end
                  /\ IF TableEmits(tableLines)
                       THEN Push(RenderTable(tableLines, keyIndex), end)
                       ELSE UNCHANGED <<keyIndex, elements, consumed>>
            /\ UNCHANGED pc
  /\ UNCHANGED <<content, lines, output>>
  /\ UNCHANGED <<inlineVars, roundVars, authVars, pdfVars>>

\* while (i < lines.length && !lines[i].trim().startsWith('```')) i++
RECURSIVE CodeEnd(_)
CodeEnd(j) ==
  IF j < Len(lines) /\ ~IsFenceLine(LineAt(j)) THEN CodeEnd(j + 1) ELSE j

\* Mutant of CodeContent: the code lines are trimmed before they are joined.
CodeContentTrimmed(first, end) ==
  Join([k \in 1..(end - first) |-> Trim(LineAt(first + k - 1))], NL)

\* codeLines.join('\n') of the lines from index first up to, not including, end
CodeContent(first, end) == Join(SubSeq(lines, first + 1, end), NL)

CodeBranch ==
  /\ InLoop
  /\ LineAt(i) # Undefined
  /\ ~IsTableLine(LineAt(i))
  /\ IsFenceLine(LineAt(i))
  /\ LET end == CodeEnd(i + 1)
     IN /\ i' = end + 1
        /\ Push([type |-> "pre", key |-> keyIndex,
                 code |-> CodeContent(i + 1, end)], end + 1)
  /\ UNCHANGED <<content, lines, pc, output>>
  /\ UNCHANGED <<inlineVars, roundVars, authVars, pdfVars>>

\* No block with a lookahead loop starts at the line.
NotTableNorFence(line) ==
  line # Undefined /\ ~IsTableLine(line) /\ ~IsFenceLine(line)

HeaderBranch ==
  /\ InLoop
  /\ NotTableNorFence(LineAt(i))
  /\ HeadingLevel(LineAt(i)) > 0
  /\ LET level == HeadingLevel(LineAt(i))
     IN Push([type |-> "h", level |-> level, key |-> keyIndex,
              children |-> RenderInline(Drop(LineAt(i), level + 1))], i + 1)
  /\ i' = i + 1
  /\ UNCHANGED <<content, lines, pc, output>>
  /\ UNCHANGED <<inlineVars, roundVars, authVars, pdfVars>>

\* while (i < lines.length && lines[i].trim().match(/^[-*•]\s/)) i++
RECURSIVE BulletEnd(_)
BulletEnd(j) ==
  IF j < Len(lines) /\ IsBulletLine(LineAt(j)) THEN BulletEnd(j + 1) ELSE j

\* Mutant of BulletItem: the marker stays in the item.
BulletItemKeepsMarker(line) == Trim(line)

\* lines[i].trim().replace(/^[-*•]\s/, '')
BulletItem(line) == Drop(Trim(line), BulletMatch(Trim(line)))

\* listItems.map(item => <li>{renderInline(item)}</li>)
ListItems(listItems) ==
  [k \in 1..Len(listItems) |-> RenderInline(listItems[k])]

BulletBranch ==
  /\ InLoop
  /\ NotTableNorFence(LineAt(i))
  /\ HeadingLevel(LineAt(i)) = 0
  /\ IsBulletLine(LineAt(i))
  /\ LET end == BulletEnd(i)
         listItems == [k \in 1..(end - i) |-> BulletItem(LineAt(i + k - 1))]
     IN /\ i' = end
        /\ Push([type |-> "ul", key |-> keyIndex,
                 items |-> ListItems(listItems)], end)
  /\ UNCHANGED <<content, lines, pc, output>>
  /\ UNCHANGED <<inlineVars, roundVars, authVars, pdfVars>>

\* while (i < lines.length && lines[i].trim().match(/^\d+[.)]\s/)) i++
RECURSIVE NumberedEnd(_)
NumberedEnd(j) ==
  IF j < Len(lines) /\ IsNumberedLine(LineAt(j)) THEN NumberedEnd(j + 1) ELSE j

\* lines[i].trim().replace(/^\d+[.)]\s/, '')
NumberedItem(line) == Drop(Trim(line), NumberedMatch(Trim(line)))

NumberedBranch ==
  /\ InLoop
  /\ NotTableNorFence(LineAt(i))
  /\ HeadingLevel(LineAt(i)) = 0
  /\ ~IsBulletLine(LineAt(i))
  /\ IsNumberedLine(LineAt(i))
  /\ LET end == NumberedEnd(i)
         listItems == [k \in 1..(end - i) |-> NumberedItem(LineAt(i + k - 1))]
     IN /\ i' = end
        /\ Push([type |-> "ol", key |-> keyIndex,
                 items |-> ListItems(listItems)], end)
  /\ UNCHANGED <<content, lines, pc, output>>
  /\ UNCHANGED <<inlineVars, roundVars, authVars, pdfVars>>

\* None of the table, fence, heading and list matchers matches the line.
NoBlockMatcher(line) ==
  /\ NotTableNorFence(line)
  /\ HeadingLevel(line) = 0
  /\ ~IsBulletLine(line)
  /\ ~IsNumberedLine(line)

BlankBranch ==
  /\ InLoop
  /\ NoBlockMatcher(LineAt(i))
  /\ IsBlankLine(LineAt(i))
  /\ Push([type |-> "break", key |-> keyIndex], i + 1)
  /\ i' = i + 1
  /\ UNCHANGED <<content, lines, pc, output>>
  /\ UNCHANGED <<inlineVars, roundVars, authVars, pdfVars>>

ParagraphBranch ==
  /\ InLoop
  /\ NoBlockMatcher(LineAt(i))
  /\ ~IsBlankLine(LineAt(i))
  /\ Push([type |-> "p", key |-> keyIndex,
           children |-> RenderInline(LineAt(i))], i + 1)
  /\ i' = i + 1
  /\ UNCHANGED <<content, lines, pc, output>>
  /\ UNCHANGED <<inlineVars, roundVars, authVars, pdfVars>>

\* The loop ends: return elements, wrapped in the container div.
Return ==
  /\ pc = "loop"
  /\ ~LoopGuard(i)
  /\ output' = Container(elements)
  /\ pc' = "done"
  /\ UNCHANGED <<content, lines, i, keyIndex, elements, consumed, iterations>>
  /\ UNCHANGED <<inlineVars, roundVars, authVars, pdfVars>>

Next ==
  \/ Render
  \/ TableBranch
  \/ CodeBranch
  \/ HeaderBranch
  \/ BulletBranch
  \/ NumberedBranch
  \/ BlankBranch
  \/ ParagraphBranch
  \/ Return

Spec == Init /\ [][Next]_vars

\* The same render on the documents made of MatcherLineSet.
MatcherNext ==
  \/ RenderMatcher
  \/ TableBranch
  \/ CodeBranch
  \/ HeaderBranch
  \/ BulletBranch
  \/ NumberedBranch
  \/ BlankBranch
  \/ ParagraphBranch
  \/ Return

MatcherSpec == Init /\ [][MatcherNext]_vars

\* One call of renderInline on its own.
InlineSpec == Init /\ [][InlineNext]_vars

\* ------------------------------------------------------------ properties
\* What the properties are stated with is defined here from the input lines
\* alone, not from the operators the actions use.

\* p occurs in line right after its leading whitespace.
StartsAfterBlanks(line, p) ==
  \E k \in 1..Len(line) :
    /\ \A m \in 1..(k - 1) : line[m] \in Whitespace
    /\ k + Len(p) - 1 <= Len(line)
    /\ \A m \in 1..Len(p) : line[k + m - 1] = p[m]

LineIndices == 0..(Len(lines) - 1)
PipeLineAt(l) == l \in LineIndices /\ StartsAfterBlanks(lines[l + 1], <<PIPE>>)
FenceLineAt(l) ==
  l \in LineIndices /\ StartsAfterBlanks(lines[l + 1], <<TICK, TICK, TICK>>)

\* The render returned the container with the elements.
Finished == pc = "done" /\ output.kind = "div"

\* The content is null or the empty string.
EmptyOrNull == content.isNull \/ Len(content.chars) = 0

\* The entries of elements whose iteration moved the cursor over line l.
Owners(l) ==
  {k \in 1..Len(consumed) : consumed[k].from <= l /\ l < consumed[k].to}

\* C1: for every input string the render never raises an error, every
\* iteration of the loop moves the cursor forward and never beyond one past
\* the last line (so the loop ends), and the render returns the sequence of
\* elements.
C1_RenderIsTotal ==
  /\ [](pc \in {"start", "loop", "done"})
  /\ [](pc = "done" /\ ~EmptyOrNull => output = Container(elements))
  /\ [][pc = "loop" => \/ pc' = "done"
                       \/ pc' = "loop" /\ i < i' /\ i' <= Len(lines) + 1]_vars

\* C1 witness: a render that ended on an input with a fence that is never
\* closed and a table row without its closing pipe.
C1_Witness ==
  /\ Finished
  /\ i = Len(lines) + 1
  /\ \E l \in LineIndices : lines[l + 1] = OpenRowLine

\* C2: null and the empty string render nothing: no line is split off, no
\* element is made, the loop is not entered and the result is null.
C2_EmptyContentRendersNothing ==
  EmptyOrNull =>
    /\ pc \in {"start", "done"}
    /\ lines = <<>>
    /\ elements = <<>>
    /\ output \in {Pending, NullOutput}
    /\ pc = "done" => output = NullOutput

\* C2 witness: the render of the empty string has returned.
C2_Witness == ~content.isNull /\ content.chars = <<>> /\ pc = "done"

\* The number of fence lines before line l: even outside a code block.
FencesBefore(l) == Cardinality({m \in 0..(l - 1) : FenceLineAt(m)})

\* Line l is a table line outside any code block with no table line next to
\* it: a table run of one line.
SingleLineTableRun(l) ==
  /\ PipeLineAt(l)
  /\ FencesBefore(l) % 2 = 0
  /\ ~PipeLineAt(l - 1)
  /\ ~PipeLineAt(l + 1)

\* The positions of the first and last character of line that is not
\* whitespace (0 when there is none).
FirstInk(line) ==
  IF \A k \in 1..Len(line) : line[k] \in Whitespace THEN 0
  ELSE CHOOSE k \in 1..Len(line) :
         line[k] \notin Whitespace /\ \A m \in 1..(k - 1) : line[m] \in Whitespace
LastInk(line) ==
  IF \A k \in 1..Len(line) : line[k] \in Whitespace THEN 0
  ELSE CHOOSE k \in 1..Len(line) :
         line[k] \notin Whitespace
           /\ \A m \in (k + 1)..Len(line) : line[m] \in Whitespace

\* Only '-', ':', '|' and whitespace occur in the line, and at least one of
\* them is not whitespace.
OnlySeparatorCharacters(line) ==
  /\ FirstInk(line) > 0
  /\ \A k \in 1..Len(line) : line[k] \in {DASH, COLON, PIPE, SP, "\t"}

\* A separator row that opens and closes with a pipe.
ClosedSeparator(line) ==
  /\ OnlySeparatorCharacters(line)
  /\ line[FirstInk(line)] = PIPE
  /\ line[LastInk(line)] = PIPE
  /\ LastInk(line) - FirstInk(line) >= 2

\* C3 as stated: once the render has returned, every input line was consumed
\* by exactly one entry of elements.
C3_EveryLineInExactlyOneNode ==
  Finished => \A l \in LineIndices : Cardinality(Owners(l)) = 1

\* C3 as amended: every input line was consumed by exactly one entry of
\* elements, except the line of a one-line table run, which was consumed by
\* none; and the entry is null only for separator rows.
C3_EveryLineInOneNodeUnlessSingleTableLine ==
  Finished =>
    \A l \in LineIndices :
      /\ Cardinality(Owners(l)) = IF SingleLineTableRun(l) THEN 0 ELSE 1
      /\ \A k \in Owners(l) :
           elements[k] = NullNode => ClosedSeparator(lines[l + 1])

\* C3 witness: a finished render of three lines, the middle one a table run
\* of its own, with two entries.
C3_Witness ==
  /\ Finished
  /\ Len(lines) = 3
  /\ SingleLineTableRun(1)
  /\ Len(elements) = 2

\* C4: the entries are in document order (the lines of an earlier entry all
\* precede the lines of a later one), and a step only ever appends an entry.
C4_DocumentOrder ==
  /\ [](\A k1, k2 \in 1..Len(consumed) :
          k1 < k2 => /\ consumed[k1].from < consumed[k1].to
                     /\ consumed[k1].to <= consumed[k2].from)
  /\ [](Len(consumed) = Len(elements))
  /\ [][\/ elements' = elements
        \/ /\ Len(elements') = Len(elements) + 1
           /\ SubSeq(elements', 1, Len(elements)) = elements]_vars

\* C4 witness: a finished render with three entries.
C4_Witness == Finished /\ Len(elements) = 3

\* The length of the run of table lines starting at line l.
PipeRun(l) ==
  CHOOSE n \in 0..Len(lines) :
    /\ \A m \in l..(l + n - 1) : PipeLineAt(m)
    /\ ~PipeLineAt(l + n)

\* C5: when the cursor is on a table line, the iteration moves the cursor
\* past the whole run of table lines; it pushes an entry only if the run has
\* at least two lines, and for a run of one line it pushes nothing.  Every
\* Table node was made from a maximal run of at least two table lines.
C5_TableNeedsTwoLines ==
  /\ [][pc = "loop" /\ PipeLineAt(i) =>
          /\ i' = i + PipeRun(i)
          /\ PipeRun(i) = 1 => elements' = elements
          /\ elements' # elements =>
               /\ PipeRun(i) >= 2
               /\ elements' = Append(elements, elements'[Len(elements')])
               /\ elements'[Len(elements')].type \in {"table", "null"}]_vars
  /\ [](\A k \in 1..Len(elements) :
          elements[k].type = "table" =>
            /\ consumed[k].to - consumed[k].from >= 2
            /\ \A m \in consumed[k].from..(consumed[k].to - 1) : PipeLineAt(m)
            /\ ~PipeLineAt(consumed[k].from - 1)
            /\ ~PipeLineAt(consumed[k].to))

\* C5 witness: the cursor has moved past a one-line table run at line 0 and
\* no entry was pushed for it.
C5_Witness ==
  /\ pc = "loop"
  /\ Len(lines) >= 2
  /\ PipeLineAt(0)
  /\ ~PipeLineAt(1)
  /\ i = 1
  /\ elements = <<>>

\* The line without its leading and trailing whitespace.
InkOf(s) == IF FirstInk(s) = 0 THEN <<>> ELSE SubSeq(s, FirstInk(s), LastInk(s))

PipePositions(line) == {k \in 1..Len(line) : line[k] = PIPE}
NthPipe(line, n) ==
  CHOOSE p \in PipePositions(line) :
    Cardinality({q \in PipePositions(line) : q <= p}) = n

\* The cell texts of a table row: the text between each pipe and the next,
\* and the text after the last pipe when the row does not end with a pipe;
\* each without its surrounding whitespace.
CellTexts(line) ==
  LET np == Cardinality(PipePositions(line))
      n == IF line[LastInk(line)] = PIPE THEN np - 1 ELSE np
  IN [c \in 1..n |->
        InkOf(SubSeq(line, NthPipe(line, c) + 1,
                     IF c < np THEN NthPipe(line, c + 1) - 1 ELSE Len(line)))]

\* The lines with a 0-based index in ids, in document order.
LinesAt(ids) ==
  [r \in 1..Cardinality(ids) |->
     lines[(CHOOSE m \in ids : Cardinality({x \in ids : x <= m}) = r) + 1]]

\* The 0-based indices of the lines entry k was made from.
RunOf(k) == consumed[k].from..(consumed[k].to - 1)

\* The header row followed by the body rows of a Table node.
RowsOf(node) == <<node.header>> \o node.body

\* C6 as stated: in a table run every row made only of '-', ':', '|' and
\* whitespace is discarded: the rows of the entry are the other lines of the
\* run, one row each.
C6_SeparatorRowsDiscarded ==
  \A k \in 1..Len(elements) :
    elements[k].type = "table" =>
      Len(RowsOf(elements[k])) =
        Cardinality({m \in RunOf(k) : ~OnlySeparatorCharacters(lines[m + 1])})

\* C7 as stated: every data row of a table keeps all its cell texts: the
\* segments dropped at its two ends hold no text, so the row of the Table
\* made from the line has every cell of the line.
C7_NoCellTextLost ==
  \A k \in 1..Len(elements) :
    elements[k].type = "table" =>
      \A m \in RunOf(k) :
        ~OnlySeparatorCharacters(lines[m + 1]) =>
          \E r \in 1..Len(RowsOf(elements[k])) :
            RowsOf(elements[k])[r] = RenderCells(CellTexts(lines[m + 1]))

\* The run of entry k is a header row, a separator row and data rows.
HeaderSeparatorData(k) ==
  /\ consumed[k].to - consumed[k].from >= 2
  /\ \A m \in RunOf(k) :
       OnlySeparatorCharacters(lines[m + 1]) <=> m = consumed[k].from + 1

\* C8 as stated: for a run of a header row, a separator row and n >= 0 data
\* rows the entry is a Table whose header is the cells of the first row and
\* whose body is the cells of the data rows, in order.
C8_HeaderAndBody ==
  \A k \in 1..Len(elements) :
    elements[k].type \in {"table", "null"} /\ HeaderSeparatorData(k) =>
      LET data == LinesAt(RunOf(k) \ {consumed[k].from + 1})
      IN /\ elements[k].type = "table"
         /\ elements[k].header = RenderCells(CellTexts(data[1]))
         /\ elements[k].body =
              [r \in 1..(Len(data) - 1) |-> RenderCells(CellTexts(data[r + 1]))]

\* The index of the first fence line after line f; lines.length if none.
ClosingFence(f) ==
  IF \E m \in (f + 1)..(Len(lines) - 1) : FenceLineAt(m)
    THEN CHOOSE m \in (f + 1)..(Len(lines) - 1) :
           FenceLineAt(m) /\ \A x \in (f + 1)..(m - 1) : ~FenceLineAt(x)
    ELSE Len(lines)

\* C9: a CodeBlock starts at a fence line, ends right after the next fence
\* line (or the input), and its content is the lines strictly between them
\* joined by newlines, unchanged; no other entry starts at one of its lines.
C9_CodeIsVerbatim ==
  \A k \in 1..Len(elements) :
    elements[k].type = "pre" =>
      LET f == consumed[k].from
          c == ClosingFence(f)
      IN /\ FenceLineAt(f)
         /\ consumed[k].to = c + 1
         /\ elements[k].code = Join(SubSeq(lines, f + 2, c), NL)
         /\ \A k2 \in 1..Len(elements) :
              k2 # k => consumed[k2].from \notin f..c

\* C9 witness: a CodeBlock whose content is two lines, one of them a table
\* row, the other with whitespace at both ends.
C9_Witness ==
  /\ Finished
  /\ lines = <<FenceLine, RowLine, TextLine>>
  /\ elements[1].code = RowLine \o <<NL>> \o TextLine

\* C10: a CodeBlock opened by a fence line with no fence line after it is
\* the last entry, holds all the remaining lines, and leaves the cursor one
\* past the end, from where the render only returns the elements.
C10_UnterminatedFence ==
  /\ [](\A k \in 1..Len(elements) :
          elements[k].type = "pre" /\ ClosingFence(consumed[k].from) = Len(lines) =>
            /\ k = Len(elements)
            /\ elements[k].code =
                 Join(SubSeq(lines, consumed[k].from + 2, Len(lines)), NL)
            /\ i = Len(lines) + 1
            /\ pc \in {"loop", "done"})
  /\ [][pc = "loop" /\ i = Len(lines) + 1 =>
          /\ pc' = "done"
          /\ elements' = elements
          /\ output' = Container(elements)]_vars

\* C10 witness: a finished render whose second and last entry is a CodeBlock
\* that ran to the end of the input.
C10_Witness ==
  /\ Finished
  /\ i = Len(lines) + 1
  /\ Len(elements) = 2
  /\ elements[2].type = "pre"
  /\ elements[2].code # <<>>

\* ------------------------------------------------------------ line kinds
\* What kind of line the text of a line makes it, stated on its characters.

\* The untrimmed line begins with exactly k '#' characters and then a space.
HashLine(line, k) ==
  /\ Len(line) >= k + 1
  /\ \A m \in 1..k : line[m] = HASH
  /\ line[k + 1] = SP

\* The trimmed line starts with '-', '*' or the bullet character followed by
\* whitespace (so something that is not whitespace follows further on).
BulletLine(line) ==
  LET f == FirstInk(line)
  IN /\ f > 0
     /\ line[f] \in {DASH, STAR, BULLET}
     /\ f + 1 < LastInk(line)
     /\ line[f + 1] \in Whitespace

\* The trimmed line starts with digits, then '.' or ')', then whitespace.
NumberLine(line) ==
  LET f == FirstInk(line)
  IN /\ f > 0
     /\ \E d \in f..Len(line) :
          /\ \A m \in f..d : line[m] \in Digits
          /\ d + 2 < LastInk(line)
          /\ line[d + 1] \in {".", ")"}
          /\ line[d + 2] \in Whitespace

\* The line is empty or whitespace only.
BlankLine(line) == FirstInk(line) = 0

\* Line l matches none of the table, fence, heading and list matchers.
PlainLineAt(l) ==
  /\ l \in LineIndices
  /\ ~PipeLineAt(l)
  /\ ~FenceLineAt(l)
  /\ \A k \in 1..3 : ~HashLine(lines[l + 1], k)
  /\ ~BulletLine(lines[l + 1])
  /\ ~NumberLine(lines[l + 1])

\* The node a plain line gets when it is pushed as entry number k.
PlainNode(line, k) ==
  IF BlankLine(line)
    THEN [type |-> "break", key |-> k - 1]
    ELSE [type |-> "p", key |-> k - 1, children |-> RenderInline(line)]

\* C18: a line at the cursor that matches none of the table, fence, heading
\* and list matchers gets exactly one node of its own, appended to the
\* elements, and the cursor moves on by one: a break for an empty or
\* whitespace-only line, otherwise a paragraph holding that one line. So in
\* the result every such line outside a code block is the only line of
\* exactly one node, and k such lines in a row give k nodes.
C18_PlainLineYieldsOwnNode ==
  /\ [][pc = "loop" /\ PlainLineAt(i) =>
          /\ i' = i + 1
          /\ elements' =
               Append(elements, PlainNode(lines[i + 1], Len(elements) + 1))]_vars
  /\ [](Finished =>
          \A l \in LineIndices :
            PlainLineAt(l) /\ FencesBefore(l) % 2 = 0 =>
              \E k \in 1..Len(elements) :
                /\ Owners(l) = {k}
                /\ consumed[k] = [from |-> l, to |-> l + 1]
                /\ elements[k] = PlainNode(lines[l + 1], k))

\* C18 witness: two paragraph lines in a row and a whitespace-only line
\* were rendered to three nodes.
C18_Witness ==
  /\ Finished
  /\ lines = <<TextLine, MarkupLine, SpaceLine>>
  /\ Len(elements) = 3
  /\ elements[1].type = "p" /\ elements[2].type = "p"
  /\ elements[3].type = "break"

\* A table run of two or more lines outside any code block starts at line l
\* and every line of it is a separator row closed by a pipe.
SeparatorOnlyRunAt(l) ==
  /\ PipeLineAt(l)
  /\ ~PipeLineAt(l - 1)
  /\ FencesBefore(l) % 2 = 0
  /\ PipeRun(l) >= 2
  /\ \A m \in l..(l + PipeRun(l) - 1) : ClosedSeparator(lines[m + 1])

\* C17 as stated: a table run of two or more lines that are all separator
\* rows contributes nothing to the result: no entry of the returned sequence,
\* neither a Table nor a placeholder, was made from its lines.
C17_SeparatorOnlyRunLeavesNoEntry ==
  Finished =>
    \A l \in LineIndices :
      SeparatorOnlyRunAt(l) =>
        \A m \in l..(l + PipeRun(l) - 1) : Owners(m) = {}

\* The step appended one entry to elements.
PushedOne ==
  /\ Len(elements') = Len(elements) + 1
  /\ SubSeq(elements', 1, Len(elements)) = elements

\* The entry the step appended.
Pushed == elements'[Len(elements')]

\* C11: a line at the cursor yields a heading of level k in 1..3 exactly
\* when the untrimmed line begins with k '#' characters and then a space; the
\* heading holds the inline rendering of the line without these k + 1
\* characters and the cursor moves on by one line.  So every heading of the
\* result was made from one such line, and a line with four or more '#' or
\* with whitespace before the '#' never gives a heading.
C11_HeadingIffHashesThenSpace ==
  /\ [][pc = "loop" /\ i \in LineIndices =>
          \A k \in 1..3 :
            /\ HashLine(lines[i + 1], k) <=>
                 PushedOne /\ Pushed.type = "h" /\ Pushed.level = k
            /\ HashLine(lines[i + 1], k) =>
                 /\ i' = i + 1
                 /\ Pushed =
                      [type |-> "h", level |-> k, key |-> Len(elements),
                       children |->
                         RenderInline(SubSeq(lines[i + 1], k + 2,
                                             Len(lines[i + 1])))]]_vars
  /\ [](\A e \in 1..Len(elements) :
          elements[e].type = "h" =>
            /\ elements[e].level \in 1..3
            /\ consumed[e].to = consumed[e].from + 1
            /\ HashLine(lines[consumed[e].from + 1], elements[e].level))

\* C11 witness: a line with four '#', a line with a space before '#' and a
\* level 3 heading line were rendered: only the last one gave a heading.
C11_Witness ==
  /\ Finished
  /\ lines = <<H4Line, IndentedHashLine, H3Line>>
  /\ Len(elements) = 3
  /\ elements[1].type = "p" /\ elements[2].type = "p"
  /\ elements[3].type = "h" /\ elements[3].level = 3

\* Line l is a bullet line (t = "ul"), respectively a numbered line ("ol").
ListLineAt(l, t) ==
  /\ l \in LineIndices
  /\ IF t = "ul" THEN BulletLine(lines[l + 1]) ELSE NumberLine(lines[l + 1])

\* The length of the run of list lines of kind t starting at line l.
ListRun(l, t) ==
  CHOOSE n \in 0..Len(lines) :
    /\ \A m \in l..(l + n - 1) : ListLineAt(m, t)
    /\ ~ListLineAt(l + n, t)

\* The trimmed list line without its marker: the bullet character and the
\* whitespace character after it, respectively the digits, the '.' or ')'
\* and the whitespace character after it.
ItemText(line, t) ==
  LET f == FirstInk(line)
      d == IF t = "ul" THEN f - 1
           ELSE CHOOSE x \in f..Len(line) :
                  /\ \A m \in f..x : line[m] \in Digits
                  /\ line[x + 1] \in {".", ")"}
  IN SubSeq(line, d + 3, LastInk(line))

\* A run of n list lines at the cursor becomes one list node with n items in
\* input order, and every list node was made from a whole run.
ListRunIsOneNode ==
  /\ [][\A t \in {"ul", "ol"} :
          pc = "loop" /\ ListLineAt(i, t) =>
            /\ i' = i + ListRun(i, t)
            /\ PushedOne
            /\ Pushed =
                 [type |-> t, key |-> Len(elements),
                  items |-> [n \in 1..ListRun(i, t) |->
                               RenderInline(ItemText(lines[i + n], t))]]]_vars
  /\ [](\A e \in 1..Len(elements) :
          elements[e].type \in {"ul", "ol"} =>
            /\ Len(elements[e].items) = consumed[e].to - consumed[e].from
            /\ Len(elements[e].items) >= 1
            /\ \A m \in RunOf(e) : ListLineAt(m, elements[e].type)
            /\ ~ListLineAt(consumed[e].from - 1, elements[e].type)
            /\ ~ListLineAt(consumed[e].to, elements[e].type))

\* Entries e and e + 1 are two bullet lists or two numbered lists.
AdjacentLists(e) ==
  /\ elements[e].type \in {"ul", "ol"}
  /\ elements[e + 1].type = elements[e].type

Matchers == <<"table", "fence", "heading", "bullet", "numbered", "blank">>

\* Matcher m accepts the line.
Matches(m, line) ==
  CASE m = "table" -> IsTableLine(line)
    [] m = "fence" -> IsFenceLine(line)
    [] m = "heading" -> HeadingLevel(line) > 0
    [] m = "bullet" -> IsBulletLine(line)
    [] m = "numbered" -> IsNumberedLine(line)
    [] m = "blank" -> IsBlankLine(line)

\* The first matcher, in the given order, that accepts the line; "paragraph"
\* when none does.
FirstMatch(order, line) ==
  IF \E k \in 1..Len(order) : Matches(order[k], line)
    THEN order[CHOOSE k \in 1..Len(order) :
                 /\ Matches(order[k], line)
                 /\ \A x \in 1..(k - 1) : ~Matches(order[x], line)]
    ELSE "paragraph"

Reversed(order) == [k \in 1..Len(order) |-> order[Len(order) + 1 - k]]

\* The kind of a line, read off its characters.
KindOf(line) ==
  IF StartsAfterBlanks(line, <<PIPE>>) THEN "table"
  ELSE IF StartsAfterBlanks(line, <<TICK, TICK, TICK>>) THEN "fence"
  ELSE IF \E k \in 1..3 : HashLine(line, k) THEN "heading"
  ELSE IF BulletLine(line) THEN "bullet"
  ELSE IF NumberLine(line) THEN "numbered"
  ELSE IF BlankLine(line) THEN "blank"
  ELSE "paragraph"

\* The type of the node a block of each kind is rendered to.
NodeTypes(kind) ==
  CASE kind = "table" -> {"table", "null"}
    [] kind = "fence" -> {"pre"}
    [] kind = "heading" -> {"h"}
    [] kind = "bullet" -> {"ul"}
    [] kind = "numbered" -> {"ol"}
    [] kind = "blank" -> {"break"}
    [] kind = "paragraph" -> {"p"}

\* Exactly the matcher that the characters of the line call for accepts
\* it, whatever the order the matchers are tested in.
OneMatcher(line) ==
  LET kind == KindOf(line)
  IN /\ \A m \in Range(Matchers) : Matches(m, line) <=> m = kind
     /\ FirstMatch(Matchers, line) = kind
     /\ FirstMatch(Reversed(Matchers), line) = kind

\* C16: on every line of every document that is split into lines at most
\* one of the block matchers (table, fence, heading, bullet, numbered,
\* blank) matches, and it is the one the characters of the line call for;
\* so testing them in the source's order or in the opposite order, first
\* match winning, picks the same matcher, and the block started at the
\* cursor is of the kind of its line alone.
C16_MatchersExclusive ==
  /\ [][lines' # lines =>
          \A l \in 1..Len(lines') : OneMatcher(lines'[l])]_vars
  /\ [][pc = "loop" /\ i \in LineIndices =>
          \/ PushedOne /\ Pushed.type \in NodeTypes(KindOf(lines[i + 1]))
          \/ /\ elements' = elements
             /\ KindOf(lines[i + 1]) = "table"
             /\ i' > i]_vars

\* C16 witness: a heading line, a bullet line and a numbered line were
\* rendered, each to the block of its own kind.
C16_Witness ==
  /\ Finished
  /\ lines = <<H1Line, StarItemLine, DotItemLine>>
  /\ Len(elements) = 3
  /\ elements[1].type = "h"
  /\ elements[2].type = "ul"
  /\ elements[3].type = "ol"

\* ------------------------------------------------------------ inline spans
\* What the start of a text r is, stated on its characters: r starts with a
\* backtick and c is the position of the next one, with something between;
\* r starts with '**' and the next asterisk, at c, begins another '**', with
\* something between; r starts with '*' and c is the position of the next
\* one, with something between.
CodeAt(r, c) ==
  /\ c \in 3..Len(r)
  /\ r[1] = TICK /\ r[c] = TICK
  /\ \A m \in 2..(c - 1) : r[m] # TICK
BoldAt(r, c) ==
  /\ c \in 4..(Len(r) - 1)
  /\ r[1] = STAR /\ r[2] = STAR /\ r[c] = STAR /\ r[c + 1] = STAR
  /\ \A m \in 3..(c - 1) : r[m] # STAR
ItalicAt(r, c) ==
  /\ c \in 3..Len(r)
  /\ r[1] = STAR /\ r[c] = STAR
  /\ \A m \in 2..(c - 1) : r[m] # STAR

NoCodeAt(r) == \A c \in 1..Len(r) : ~CodeAt(r, c)
NoBoldAt(r) == \A c \in 1..Len(r) : ~BoldAt(r, c)
NoItalicAt(r) == \A c \in 1..Len(r) : ~ItalicAt(r, c)

\* The step pushes one part and leaves the text after position n to scan.
Emits(part, n) ==
  /\ parts' = Append(parts, part)
  /\ remaining' = SubSeq(remaining, n + 1, Len(remaining))
  /\ ipc' = "loop"

\* The scan is at a position with text left.
Scanning == ipc = "loop" /\ remaining # <<>>

\* The characters a part was made from, delimiters included.
Delimited(part) ==
  CASE part.tag = "code" -> <<TICK>> \o part.s \o <<TICK>>
    [] part.tag = "strong" -> <<STAR, STAR>> \o part.s \o <<STAR, STAR>>
    [] part.tag = "em" -> <<STAR>> \o part.s \o <<STAR>>
    [] part.tag = "text" -> part.s

RECURSIVE Concat(_)
Concat(ps) == IF ps = <<>> THEN <<>> ELSE Delimited(Head(ps)) \o Concat(Tail(ps))

\* The stepwise renderInline returns what the operator RenderInline, used
\* by the block branches, computes.
StepwiseAgreesWithRenderInline == ipc = "done" => result = RenderInline(text)

\* C13: at each scan position renderInline takes an inline code span if one
\* starts there, else a bold span, else an italic span, and the parts are
\* emitted strictly left to right: the parts so far, delimiters put back,
\* followed by the text still to scan are the whole text.  The example text
\* gives Bold(bold), ' and ', Italic(italic), ' and ', InlineCode(code); a
\* text between two backticks with asterisks but no backtick inside is one
\* InlineCode span; and '**x**' is Bold.
C13_CodeThenBoldThenItalic ==
  /\ [][Scanning =>
          \A c \in 1..Len(remaining) :
            /\ CodeAt(remaining, c) =>
                 Emits(Part("code", SubSeq(remaining, 2, c - 1)), c)
            /\ NoCodeAt(remaining) /\ BoldAt(remaining, c) =>
                 Emits(Part("strong", SubSeq(remaining, 3, c - 1)), c + 1)
            /\ NoCodeAt(remaining) /\ NoBoldAt(remaining)
                 /\ ItalicAt(remaining, c) =>
                 Emits(Part("em", SubSeq(remaining, 2, c - 1)), c)]_vars
  /\ [](ipc = "loop" => Concat(parts) \o remaining = text)
  /\ [](ipc = "done" =>
          /\ Concat(result.parts) = text
          /\ text = ExampleText =>
               result.parts =
                 <<Part("strong", <<"b", "o", "l", "d">>),
                   Part("text", <<SP, "a", "n", "d", SP>>),
                   Part("em", <<"i", "t", "a", "l", "i", "c">>),
                   Part("text", <<SP, "a", "n", "d", SP>>),
                   Part("code", <<"c", "o", "d", "e">>)>>
          /\ CodeAt(text, Len(text)) =>
               result.parts = <<Part("code", SubSeq(text, 2, Len(text) - 1))>>
          /\ text = BoldXText => result.parts = <<Part("strong", <<"x">>)>>)

\* C13 witness: the example text was rendered to five parts.
C13_Witness ==
  /\ ipc = "done"
  /\ text = ExampleText
  /\ Len(result.parts) = 5
  /\ result.parts[1].tag = "strong"
  /\ result.parts[5].tag = "code"

\* C14: when the text at the scan position starts with a backtick or an
\* asterisk and no inline code, bold or italic span starts there, the step
\* emits that one character as plain text and the scan goes on from the
\* next character: nothing of the rest is swallowed or skipped.
C14_LoneSpecialIsOneCharacter ==
  [][Scanning /\ remaining[1] \in {TICK, STAR} /\ NoCodeAt(remaining)
       /\ NoBoldAt(remaining) /\ NoItalicAt(remaining) =>
       Emits(Part("text", <<remaining[1]>>), 1)]_vars

\* C14 witness: a dangling bold delimiter was rendered as two one-character
\* texts followed by the rest.
C14_Witness ==
  /\ ipc = "done"
  /\ text = <<STAR, STAR, "a">>
  /\ result.parts =
       <<Part("text", <<STAR>>), Part("text", <<STAR>>), Part("text", <<"a">>)>>

\* The position of the first backtick of r after its first character.
NextTick(r) ==
  CHOOSE c \in 2..Len(r) : r[c] = TICK /\ \A m \in 2..(c - 1) : r[m] # TICK

\* The text at the scan position starts with a backtick and has a later one.
TickWithLaterTick ==
  /\ Scanning
  /\ remaining[1] = TICK
  /\ \E c \in 2..Len(remaining) : remaining[c] = TICK

\* C19 as stated: whenever the text at the scan position starts with a
\* backtick and a later backtick exists, the characters up to and including
\* the next backtick are consumed as one InlineCode span holding the text
\* between the two backticks.
C19_BacktickPairIsCode ==
  [][TickWithLaterTick =>
       Emits(Part("code", SubSeq(remaining, 2, NextTick(remaining) - 1)),
             NextTick(remaining))]_vars

\* C19 amended: whenever the text at the scan position starts with a
\* backtick and a later backtick exists, then if at least one character lies
\* between it and the next backtick the characters up to and including the
\* next backtick are consumed as one InlineCode span holding the text between
\* them, and if the next backtick follows at once only the first backtick is
\* consumed, as a plain text of one character.
C19_BacktickPairWithContentIsCode ==
  [][TickWithLaterTick =>
       IF NextTick(remaining) >= 3
         THEN Emits(Part("code", SubSeq(remaining, 2, NextTick(remaining) - 1)),
                    NextTick(remaining))
         ELSE Emits(Part("text", <<TICK>>), 1)]_vars

\* C19 witness: of two backticks in a row the first was rendered as text,
\* and the second opened a code span.
C19_Witness ==
  /\ ipc = "done"
  /\ text = <<TICK, TICK, "a", TICK>>
  /\ result.parts = <<Part("text", <<TICK>>), Part("code", <<"a">>)>>

\* C20: the content of every bold and italic part is not empty and has no
\* asterisk, the content of every inline code part is not empty and has no
\* backtick, and the content of a part is kept as the characters it was
\* made from, markup included: '*`a`*' is one italic part holding the two
\* backticks, and '**a*b*c**' gives no bold part.
C20_SpanContents ==
  /\ \A k \in 1..Len(parts) :
       /\ parts[k].tag \in {"strong", "em"} =>
            parts[k].s # <<>> /\ STAR \notin Range(parts[k].s)
       /\ parts[k].tag = "code" =>
            parts[k].s # <<>> /\ TICK \notin Range(parts[k].s)
  /\ ipc = "done" =>
       /\ result.parts = parts \/ text = <<>>
       /\ text = <<STAR, TICK, "a", TICK, STAR>> =>
            result.parts = <<Part("em", <<TICK, "a", TICK>>)>>
       /\ text = NestedText =>
            result.parts =
              <<Part("text", <<STAR>>), Part("em", <<"a">>),
                Part("text", <<"b">>), Part("em", <<"c">>),
                Part("text", <<STAR>>)>>

\* C20 witness: '**a*b*c**' was rendered to five parts.
C20_Witness ==
  /\ ipc = "done"
  /\ text = NestedText
  /\ Len(result.parts) = 5

\* ------------------------------------------------------------ round trip
\* The blocks of a render written back as text, and the component rendered
\* again with that text.

\* The text a rendered inline content was made from.
InlineSource(rendered) == Concat(rendered.parts)

\* A table row as a pipe row: '|' and then every cell followed by '|'.
RECURSIVE RowText(_)
RowText(cells) ==
  IF cells = <<>> THEN <<PIPE>>
  ELSE RowText(SubSeq(cells, 1, Len(cells) - 1))
         \o InlineSource(cells[Len(cells)]) \o <<PIPE>>

\* A separator row of n columns: '|' and then n times '-|'.
SeparatorText(n) ==
  [k \in 1..(2 * n + 1) |-> IF k % 2 = 1 THEN PIPE ELSE DASH]

\* The marker of the n-th item of a numbered list.
NumberMarker(n) ==
  <<IF n \in 1..9 THEN <<"1", "2", "3", "4", "5", "6", "7", "8", "9">>[n]
    ELSE "1", ".", SP>>

\* The text of one block: a heading as '#'s, a space and its text, a list
\* item as '- ', respectively its number and '. ', and its text, a table as
\* pipe rows (with a separator row after the header when withSeparator), a
\* code block as its content between two fence lines, a paragraph as its
\* text and a blank as the empty line.
BlockText(node, withSeparator) ==
  CASE node.type = "h" ->
         [k \in 1..node.level |-> HASH] \o <<SP>> \o InlineSource(node.children)
    [] node.type = "ul" ->
         Join([k \in 1..Len(node.items) |->
                 <<DASH, SP>> \o InlineSource(node.items[k])], NL)
    [] node.type = "ol" ->
         Join([k \in 1..Len(node.items) |->
                 NumberMarker(k) \o InlineSource(node.items[k])], NL)
    [] node.type = "table" ->
         Join(<<RowText(node.header)>>
                \o (IF withSeparator
                      THEN <<SeparatorText(Len(node.header))>> ELSE <<>>)
                \o [r \in 1..Len(node.body) |-> RowText(node.body[r])], NL)
    [] node.type = "pre" ->
         <<TICK, TICK, TICK, NL>> \o node.code \o <<NL, TICK, TICK, TICK>>
    [] node.type = "p" -> InlineSource(node.children)
    [] node.type = "break" -> <<>>

\* The entries that are blocks: a null entry is no block.
RECURSIVE Blocks(_)
Blocks(entries) ==
  IF entries = <<>> THEN <<>>
  ELSE IF entries[1].type = "null" THEN Blocks(Tail(entries))
  ELSE <<entries[1]>> \o Blocks(Tail(entries))

\* The blocks written back as text, one after the other on lines of their own.
Serialise(entries, withSeparator) ==
  LET blocks == Blocks(entries)
  IN Join([k \in 1..Len(blocks) |-> BlockText(blocks[k], withSeparator)], NL)

\* The component is rendered again, its content now the blocks of the
\* finished render written back as text.
Rerender ==
  /\ pc = "done"
  /\ pass = 1
  /\ output.kind = "div"
  /\ \E withSeparator \in BOOLEAN :
       LET c == StringContent(Serialise(elements, withSeparator))
       IN /\ firstPass' = [lines |-> lines, elements |-> elements,
                           separator |-> withSeparator]
          /\ content' = c
          /\ IF Falsy(c)
               THEN /\ output' = NullOutput
                    /\ pc' = "done"
                    /\ lines' = <<>>
               ELSE /\ lines' = Split(c.chars, NL)
                    /\ pc' = "loop"
                    /\ output' = Pending
  /\ pass' = 2
  /\ i' = 0
  /\ keyIndex' = 0
  /\ elements' = <<>>
  /\ consumed' = <<>>
  /\ iterations' = 0
  /\ UNCHANGED <<inlineVars, authVars, pdfVars>>

RoundNext ==
  \/ RenderRound
  \/ TableBranch
  \/ CodeBranch
  \/ HeaderBranch
  \/ BulletBranch
  \/ NumberedBranch
  \/ BlankBranch
  \/ ParagraphBranch
  \/ Return
  \/ Rerender

\* A render followed by the render of its blocks written back as text.
RoundSpec == Init /\ [][RoundNext]_vars

\* Line l of the lines ls is a table line, respectively a fence line.
PipeIn(ls, l) ==
  l \in 0..(Len(ls) - 1) /\ StartsAfterBlanks(ls[l + 1], <<PIPE>>)
FenceIn(ls, l) ==
  l \in 0..(Len(ls) - 1) /\ StartsAfterBlanks(ls[l + 1], <<TICK, TICK, TICK>>)

\* Line l of ls is outside every code block.
OutsideCode(ls, l) == Cardinality({m \in 0..(l - 1) : FenceIn(ls, m)}) % 2 = 0

\* The row begins with one pipe and ends with another one.
ClosedRow(line) ==
  /\ FirstInk(line) > 0
  /\ FirstInk(line) < LastInk(line)
  /\ line[FirstInk(line)] = PIPE
  /\ line[LastInk(line)] = PIPE

\* Every table of the lines ls is well formed: its run of table lines has at
\* least two lines, every one of them begins and ends with a pipe, and not
\* all of them are separator rows.
WellFormed(ls) ==
  \A l \in 0..(Len(ls) - 1) :
    PipeIn(ls, l) /\ OutsideCode(ls, l) =>
      /\ PipeIn(ls, l - 1) \/ PipeIn(ls, l + 1)
      /\ ClosedRow(ls[l + 1])
      /\ \E m \in 0..(Len(ls) - 1) :
           /\ \A x \in 0..(Len(ls) - 1) :
                (l <= x /\ x <= m) \/ (m <= x /\ x <= l) => PipeIn(ls, x)
           /\ ~ClosedSeparator(ls[m + 1])

\* The second render has returned.
SecondDone == pass = 2 /\ pc = "done"

\* The second render gave the blocks of the first one.
SameBlocks == elements = firstPass.elements /\ output = Container(elements)

\* C15 as stated: for well-formed input, writing the blocks back as text
\* (headings as '# text', list items as marker and item, table rows as pipe
\* rows, code blocks as fenced lines, paragraphs and blanks as lines) and
\* rendering that text gives a block sequence equal to the first one.
C15_RoundTripOfRows ==
  SecondDone /\ WellFormed(firstPass.lines) /\ ~firstPass.separator
    => SameBlocks

\* C15 amended: for input in which every table run has at least two lines,
\* all beginning and ending with a pipe and not all separator rows, writing
\* the blocks back as text, with a separator row after the header row of
\* every table, and rendering that text gives a block sequence equal to the
\* first one, unless that text is empty (the only block is a blank), in
\* which case the second render gives nothing.
C15_RoundTripWithSeparatorRow ==
  SecondDone /\ WellFormed(firstPass.lines) /\ firstPass.separator
    => IF content.chars = <<>>
         THEN firstPass.elements = <<[type |-> "break", key |-> 0]>>
                /\ output = NullOutput
         ELSE SameBlocks

\* C15 witness: a table of a header row and a separator row and a numbered
\* item were rendered, written back with the separator row and rendered to
\* the same two blocks again.
C15_Witness ==
  /\ SecondDone
  /\ firstPass.separator
  /\ firstPass.lines = <<RowLine, SepLine, ParenItemLine>>
  /\ Len(elements) = 2
  /\ elements[1].type = "table"
  /\ SameBlocks

\* ------------------------------------------------------------ termination
\* C21: every iteration of the outer loop moves the cursor forward by at
\* least one line and pushes at most one entry, so at any time there have
\* been at most as many iterations as the cursor has passed lines and as the
\* input has lines, and there are at most as many entries as input lines.
C21_SingleForwardScan ==
  /\ [][pc = "loop" /\ pc' = "loop" =>
          /\ i < Len(lines)
          /\ i' >= i + 1
          /\ iterations' = iterations + 1
          /\ Len(elements') \in {Len(elements), Len(elements) + 1}]_vars
  /\ [](/\ iterations <= i
        /\ iterations <= Len(lines)
        /\ Len(elements) <= iterations)
  /\ [][pc = "loop" /\ pc' = "done" => i >= Len(lines)]_vars

\* C21 witness: a finished render of three lines that took three iterations
\* and gave three entries.
C21_Witness ==
  /\ Finished
  /\ Len(lines) = 3
  /\ iterations = 3
  /\ Len(elements) = 3

\* s is what is left of r after at least one character was taken off its
\* front.
ProperSuffix(s, r) ==
  /\ Len(s) < Len(r)
  /\ s = SubSeq(r, Len(r) - Len(s) + 1, Len(r))

\* C22: every iteration of renderInline's loop pushes one part and either
\* leaves the loop or takes at least one character off the front of the
\* remaining text; so there are never more parts, and so never more
\* iterations, than characters scanned, and the loop ends with at most as
\* many parts as the text has characters.
C22_InlineTerminates ==
  /\ [][Scanning =>
          /\ Len(parts') = Len(parts) + 1
          /\ \/ ipc' = "exit"
             \/ ipc' = "loop" /\ ProperSuffix(remaining', remaining)]_vars
  /\ [][~Scanning /\ ipc \in {"exit", "loop"} =>
          ipc' = "done" /\ result'.parts = parts]_vars
  /\ [](/\ ipc = "loop" => Len(parts) <= Len(text) - Len(remaining)
        /\ Len(parts) <= Len(text)
        /\ ipc = "done" => Len(result.parts) <= Len(text))

\* C22 witness: a text of three special characters with nothing to close
\* them was rendered in three iterations to three parts.
C22_Witness ==
  /\ ipc = "done"
  /\ text = <<STAR, STAR, TICK>>
  /\ Len(result.parts) = 3

\* C24: renderInline preserves the text: the parts it returns, in order,
\* with every inline code content put between backticks, every bold content
\* between '**' and every italic content between '*', spell the input text
\* exactly; and during the scan the parts so far followed by the text still
\* to scan do.
C24_InlinePreservesText ==
  /\ ipc = "loop" => Concat(parts) \o remaining = text
  /\ ipc = "exit" => Concat(parts) = text
  /\ ipc = "done" => Concat(result.parts) = text

\* C24 witness: an italic and an inline code span next to each other were
\* rendered.
C24_Witness ==
  /\ ipc = "done"
  /\ text = <<STAR, "a", STAR, TICK, "a", TICK>>
  /\ result.parts = <<Part("em", <<"a">>), Part("code", <<"a">>)>>

\* The fence lines of the input, and the entries that are code blocks.
FenceLines == {l \in LineIndices : FenceLineAt(l)}
CodeBlocks == {k \in 1..Len(elements) : elements[k].type = "pre"}

\* C25: the lines whose trimmed content begins with three backticks open
\* and close code blocks in turn, whatever follows the backticks: the code
\* blocks start at the fence lines with an even number of fence lines before
\* them, a fence line inside the lines of a code block is its last line, no
\* paragraph is made from a fence line, and the finished render has as many
\* code blocks as half the number of fence lines, rounded up.
C25_FencesAlternate ==
  /\ \A k \in CodeBlocks :
       /\ FenceLineAt(consumed[k].from)
       /\ FencesBefore(consumed[k].from) % 2 = 0
       /\ \A m \in (consumed[k].from + 1)..(consumed[k].to - 1) :
            FenceLineAt(m) => m = consumed[k].to - 1
       /\ elements[k].code =
            Join(SubSeq(lines, consumed[k].from + 2,
                        ClosingFence(consumed[k].from)), NL)
  /\ \A k \in 1..Len(elements) :
       elements[k].type # "pre" =>
         \A m \in RunOf(k) : ~FenceLineAt(m)
  /\ Finished =>
       /\ Cardinality(CodeBlocks) = (Cardinality(FenceLines) + 1) \div 2
       /\ \A l \in FenceLines :
            FencesBefore(l) % 2 = 0 =>
              \E k \in CodeBlocks : consumed[k].from = l

\* C25 witness: a fence line with text after the backticks closed the code
\* block opened by the first line.
C25_Witness ==
  /\ Finished
  /\ lines = <<FenceLine, TextLine, InfoFenceLine>>
  /\ Len(elements) = 1
  /\ elements[1].type = "pre"
  /\ elements[1].code = TextLine


\* ----------------------------------------------------------- AuthProvider

\* Each action is one synchronous step of the provider: a whole function
\* where it does not await, and for login and authFetch the part before the
\* request is sent and the part that runs once the response has been read.
\* A useState setter is modelled as an assignment.  The provider's functions
\* can be called as soon as the page is open.

authState == <<user, loading, currentClass, localStorage, location>>

\* The page is opened in a browser whose localStorage holds what earlier
\* visits left.
OpenPage ==
  /\ ~opened
  /\ opened' = TRUE
  /\ \E saved \in SavedStorages : localStorage' = saved
  /\ lastOp' = "open"
  /\ UNCHANGED <<user, loading, currentClass, location, logins, fetches,
                 issued, mounted, outcome>>
  /\ UNCHANGED <<blockVars, inlineVars, roundVars, pdfVars>>

\* The effect run once on mount: restore the session from localStorage.
MountEffect ==
  /\ opened
  /\ ~mounted
  /\ LET savedUser == GetItem(localStorage, "user")
         savedToken == GetItem(localStorage, "access_token")
         savedClass == GetItem(localStorage, "current_class")
     IN IF Truthy(savedUser) /\ Truthy(savedToken)
          THEN /\ user' = ParseUser(savedUser.value)
               /\ currentClass' = IF Truthy(savedClass)
                                    THEN ParseClass(savedClass.value)
                                    ELSE currentClass
          ELSE UNCHANGED <<user, currentClass>>
  /\ loading' = FALSE
  /\ mounted' = TRUE
  /\ lastOp' = "mount"
  /\ UNCHANGED <<localStorage, location, logins, fetches, issued, opened,
                 outcome>>
  /\ UNCHANGED <<blockVars, inlineVars, roundVars, pdfVars>>

\* login up to its fetch: the request is sent.  logoutSince is history: it
\* tells whether logout ran while the request was in flight.
Login ==
  /\ opened
  /\ issued < MaxRequests
  /\ \E email \in Emails :
       logins' = logins \cup
         {[id |-> issued + 1, email |-> email, logoutSince |-> FALSE]}
  /\ issued' = issued + 1
  /\ lastOp' = "login"
  /\ UNCHANGED <<authState, fetches, opened, mounted, outcome>>
  /\ UNCHANGED <<blockVars, inlineVars, roundVars, pdfVars>>

\* The responses the server can give a login request: ok or not, with a
\* JSON body or a body response.json() rejects, and for an error body with
\* or without a detail.
NoData ==
  [user_id |-> "", email |-> "", name |-> "", access_token |-> <<>>,
   refresh_token |-> <<>>]
LoginResponses(email) ==
  {[status |-> 200, json |-> TRUE, data |-> LoginData(email),
    detail |-> <<>>]}
  \cup {[status |-> st, json |-> FALSE, data |-> NoData, detail |-> <<>>] :
          st \in {200, 502}}
  \cup {[status |-> 401, json |-> TRUE, data |-> NoData, detail |-> d] :
          d \in {<<>>, <<"Invalid credentials">>}}

\* response.ok: the status is in the range 200-299.
Ok(resp) == resp.status \in 200..299

LoginFailed == <<"Login failed">>

\* What login throws for a non-ok response.
LoginError(id, resp) ==
  IF resp.json
    THEN Threw("login", id, "Error",
               IF resp.detail # <<>> THEN resp.detail ELSE LoginFailed,
               resp.status)
    ELSE Threw("login", id, "SyntaxError", <<>>, resp.status)

\* A login that stores the user and the refresh token only.
LoginStoreSkipsToken(store, data) ==
  SetItem(SetItem(store,
    "user", StringifyUser(UserData(data))),
    "refresh_token", data.refresh_token)

\* The writes of login after a successful response.
LoginStore(store, data) ==
  SetItem(SetItem(SetItem(store,
    "user", StringifyUser(UserData(data))),
    "access_token", data.access_token),
    "refresh_token", data.refresh_token)

\* login from the response on.
LoginSettles ==
  /\ \E r \in logins : \E resp \in LoginResponses(r.email) :
       /\ logins' = logins \ {r}
       /\ IF ~Ok(resp)
            THEN /\ outcome' = LoginError(r.id, resp)
                 /\ UNCHANGED <<user, localStorage, fetches>>
            ELSE IF ~resp.json
              THEN /\ outcome' = Threw("login", r.id, "SyntaxError", <<>>,
                                        resp.status)
                   /\ UNCHANGED <<user, localStorage, fetches>>
              ELSE /\ user' = UserData(resp.data)
                   /\ localStorage' = LoginStore(localStorage, resp.data)
                   /\ outcome' = Returned("login", r.id, resp.status,
                                           r.logoutSince)
                   /\ fetches' =
                        {[f EXCEPT !.loginSince = TRUE] : f \in fetches}
  /\ lastOp' = "loginResponse"
  /\ UNCHANGED <<loading, currentClass, location, issued, opened, mounted>>
  /\ UNCHANGED <<blockVars, inlineVars, roundVars, pdfVars>>

\* A logout that forgets the class key.
LogoutStoreKeepsClass(store) ==
  RemoveItem(RemoveItem(RemoveItem(store,
    "user"), "access_token"), "refresh_token")

\* What logout leaves in localStorage.
LogoutStore(store) ==
  RemoveItem(RemoveItem(RemoveItem(RemoveItem(store,
    "user"), "access_token"), "refresh_token"), "current_class")

\* The body of logout.
LogoutBody ==
  /\ user' = NullUser
  /\ currentClass' = NullClass
  /\ localStorage' = LogoutStore(localStorage)
  /\ logins' = {[r EXCEPT !.logoutSince = TRUE] : r \in logins}

Logout ==
  /\ opened
  /\ LogoutBody
  /\ lastOp' = "logout"
  /\ UNCHANGED <<loading, location, fetches, issued, opened, mounted,
                 outcome>>
  /\ UNCHANGED <<blockVars, inlineVars, roundVars, pdfVars>>

SelectClass ==
  /\ opened
  /\ \E classData \in ClassData \cup {NullClass} :
       /\ currentClass' = classData
       /\ localStorage' =
            IF ~classData.isNull
              THEN SetItem(localStorage, "current_class",
                           StringifyClass(classData))
              ELSE RemoveItem(localStorage, "current_class")
  /\ lastOp' = "selectClass"
  /\ UNCHANGED <<user, loading, location, logins, fetches, issued, opened,
                 mounted, outcome>>
  /\ UNCHANGED <<blockVars, inlineVars, roundVars, pdfVars>>

\* The Authorization header, <<>> where getAuthHeader returns {}.
GetAuthHeader(store) ==
  LET token == GetItem(store, "access_token")
  IN IF Truthy(token) THEN <<"Bearer", SP>> \o token.value ELSE <<>>

\* authFetch up to its fetch: the request is sent with the header read now.
\* loginSince is history: it tells whether a login stored a session while
\* the request was in flight.
AuthFetch ==
  /\ opened
  /\ issued < MaxRequests
  /\ fetches' = fetches \cup
       {[id |-> issued + 1, authorization |-> GetAuthHeader(localStorage),
         loginSince |-> FALSE]}
  /\ issued' = issued + 1
  /\ lastOp' = "authFetch"
  /\ UNCHANGED <<authState, logins, opened, mounted, outcome>>
  /\ UNCHANGED <<blockVars, inlineVars, roundVars, pdfVars>>

Statuses == {200, 401, 403}

\* An authFetch that logs out only the session its request was sent with.
ExpiredSameSession(r, status) ==
  status = 401 /\ r.authorization = GetAuthHeader(localStorage)

\* Whether authFetch logs out on a response to request r.
Expired(r, status) == status = 401

\* authFetch from the response on.  The assignment to window.location.href
\* starts a navigation; the steps of this document that still run before it
\* commits stay possible.
AuthFetchSettles ==
  /\ \E r \in fetches : \E status \in Statuses :
       /\ fetches' = fetches \ {r}
       /\ IF Expired(r, status)
            THEN /\ LogoutBody
                 /\ location' = "/login"
            ELSE UNCHANGED <<user, currentClass, localStorage, location,
                             logins>>
       /\ outcome' = Returned("authFetch", r.id, status,
                               r.loginSince /\ user # NullUser)
  /\ lastOp' = "authFetchResponse"
  /\ UNCHANGED <<loading, issued, opened, mounted>>
  /\ UNCHANGED <<blockVars, inlineVars, roundVars, pdfVars>>

AuthNext ==
  \/ OpenPage
  \/ MountEffect
  \/ Login
  \/ LoginSettles
  \/ Logout
  \/ SelectClass
  \/ AuthFetch
  \/ AuthFetchSettles

AuthSpec == Init /\ [][AuthNext]_vars


\* ------------------------------------------------------ session properties

\* No session: no user, no class, none of the four keys in localStorage.
NoSession ==
  /\ user = NullUser
  /\ currentClass = NullClass
  /\ \A k \in {"user", "access_token", "refresh_token", "current_class"} :
       ~localStorage[k].present

\* C23: the step of authFetch that receives a response with status 401 ends
\* with no user, no class, none of the four keys in localStorage and the
\* browser sent to /login, and returns that response to the caller; on any
\* other status it leaves user, currentClass, localStorage and the location
\* as they were.
C23_UnauthorizedLogsOut ==
  [][lastOp' = "authFetchResponse" =>
       /\ outcome'.call = "authFetch"
       /\ outcome'.kind = "returned"
       /\ IF outcome'.status = 401
            THEN /\ NoSession'
                 /\ location' = "/login"
            ELSE /\ user' = user
                 /\ currentClass' = currentClass
                 /\ localStorage' = localStorage
                 /\ location' = location]_vars

\* A 401 response has just ended a session another request in flight was
\* sent with.
C23_Witness ==
  /\ lastOp = "authFetchResponse"
  /\ outcome.status = 401
  /\ NoSession
  /\ location = "/login"
  /\ \E f \in fetches : f.authorization # <<>> /\ ~f.loginSince


\* C26: in every state the provider reaches through the mount effect, login,
\* logout, selectClass and authFetch, a user that is not null comes with the
\* keys 'user' and 'access_token' in localStorage; and right after logout
\* (called directly or by authFetch on a 401) none of the four keys is there.
C26_UserImpliesStoredSession ==
  /\ user # NullUser =>
       /\ localStorage["user"].present
       /\ localStorage["access_token"].present
  /\ (\/ lastOp = "logout"
      \/ lastOp = "authFetchResponse" /\ outcome.status = 401) =>
       \A k \in {"user", "access_token", "refresh_token", "current_class"} :
         ~localStorage[k].present

\* A login has just stored a session while an authFetch was in flight and
\* after the mount effect ran.
C26_Witness ==
  /\ lastOp = "loginResponse"
  /\ outcome.kind = "returned"
  /\ mounted
  /\ user # NullUser
  /\ localStorage["access_token"].present
  /\ \E f \in fetches : f.loginSince


\* The Authorization header for the token localStorage holds now.
HeaderNow ==
  IF localStorage["access_token"].present
       /\ localStorage["access_token"].value # <<>>
    THEN <<"Bearer", " ">> \o localStorage["access_token"].value
    ELSE <<>>

\* authFetch sends its request with the header for the token stored then.
SendsTokenOfIssue ==
  lastOp' = "authFetch" =>
    \E f \in fetches' \ fetches :
      f.id = issued' /\ f.authorization = HeaderNow

\* A 401 response to a request that a login overtook ends the new session.
Late401EndsNewSession ==
  \A f \in fetches :
    (/\ lastOp' = "authFetchResponse"
     /\ outcome'.id = f.id
     /\ outcome'.status = 401
     /\ f.loginSince
     /\ user # NullUser) => NoSession'

\* A login that succeeds after a logout overtook it stores its session.
LateLoginStoresSession ==
  \A l \in logins :
    (/\ lastOp' = "loginResponse"
     /\ outcome'.id = l.id
     /\ outcome'.kind = "returned"
     /\ l.logoutSince) =>
       /\ user' # NullUser
       /\ user'.email = l.email
       /\ \A k \in {"user", "access_token", "refresh_token"} :
            localStorage'[k].present

\* C27: authFetch reads the access token when it sends its request and
\* applies its 401 handling when the response arrives without comparing the
\* two sessions: a 401 response that arrives after a login completed still
\* clears the newly stored user, tokens and class; and a login that completes
\* after a logout that ran while it was in flight leaves its user logged in.
C27_NoSessionComparison ==
  [][SendsTokenOfIssue /\ Late401EndsNewSession
       /\ LateLoginStoresSession]_vars

\* A 401 response has just cleared a session that a login stored after the
\* request was sent.
C27_Witness ==
  /\ lastOp = "authFetchResponse"
  /\ outcome.status = 401
  /\ outcome.raced
  /\ NoSession
  /\ location = "/login"

\* A login overtaken by a logout has just stored its session.
LateLoginReached ==
  /\ lastOp = "loginResponse"
  /\ outcome.kind = "returned"
  /\ outcome.raced
  /\ user # NullUser


\* C28: when the login request gets a response that is not ok, login throws
\* an Error whose message is the server's detail or 'Login failed' and
\* leaves user, currentClass and localStorage as they were; and the step of
\* login that writes user or localStorage follows an ok response and writes
\* user and the keys 'user', 'access_token' and 'refresh_token' together.
C28_FailedLoginThrowsDetail ==
  [][lastOp' = "loginResponse" =>
       /\ outcome'.status \notin 200..299 =>
            /\ outcome'.kind = "threw"
            /\ outcome'.error = "Error"
            /\ outcome'.message \in
                 {<<"Invalid credentials">>, <<"Login failed">>}
            /\ user' = user
            /\ currentClass' = currentClass
            /\ localStorage' = localStorage
       /\ (user' # user \/ localStorage' # localStorage) =>
            /\ outcome'.status \in 200..299
            /\ outcome'.kind = "returned"
            /\ user' # NullUser
            /\ \A k \in {"user", "access_token", "refresh_token"} :
                 localStorage'[k].present]_vars

\* The same without the kind of error thrown: a failed login changes
\* nothing, and login writes only after an ok response, all at once.
FailedLoginChangesNothing ==
  [][lastOp' = "loginResponse" =>
       /\ outcome'.kind = "threw" =>
            /\ user' = user
            /\ currentClass' = currentClass
            /\ localStorage' = localStorage
       /\ outcome'.kind = "returned" =>
            /\ outcome'.status \in 200..299
            /\ user' # NullUser
            /\ currentClass' = currentClass
            /\ \A k \in {"user", "access_token", "refresh_token"} :
                 localStorage'[k].present]_vars


\* ------------------------------------------------------------ PdfUploader

\* Each action is one synchronous step of the component: a whole handler
\* where it does not await, and for handleFileSelect and handleUpload the
\* part before the request is sent and the part that runs once the request
\* has settled.  The handlers are called in any state of the component,
\* which covers every state in which the rendered controls offer them.

\* The files the user can pick, by name.
UpperPdfName == <<"B", ".", "P", "D", "F">>
TextName == <<"a", ".", "t", "x", "t">>
File(name) == [isNull |-> FALSE, name |-> name]
ChosenFiles == {NoFile} \cup {File(n) : n \in {UpperPdfName, TextName}}

\* toLowerCase over the letters of the file names, and endsWith.
LowerOf(c) ==
  CASE c = "B" -> "b"
    [] c = "P" -> "p"
    [] c = "D" -> "d"
    [] c = "F" -> "f"
    [] OTHER -> c
ToLowerCase(s) == [k \in 1..Len(s) |-> LowerOf(s[k])]
EndsWith(s, p) ==
  Len(s) >= Len(p) /\ SubSeq(s, Len(s) - Len(p) + 1, Len(s)) = p

\* How a request can settle: an ok response with a JSON body, a response
\* that is not ok, an ok response whose body is not JSON, no response.
Settlements == {"ok", "not ok", "not json", "no response"}

\* err.message in the catch block.
ErrorMessage(settled, notOk) ==
  CASE settled = "not ok" -> notOk
    [] settled = "not json" -> "Unexpected token"
    [] OTHER -> "Failed to fetch"

\* The body of a preview response for a PDF of n pages.
PreviewData(n) ==
  [isNull |-> FALSE, total_pages |-> n,
   pages |-> [k \in 1..n |-> [page_number |-> k]]]

\* pages.map(p => p.page_number), as the Set built from it.
PageNumbers(info) == [k \in 1..Len(info.pages) |-> info.pages[k].page_number]

\* handleFileSelect up to its fetch.
HandleFileSelect ==
  /\ \E selectedFile \in ChosenFiles :
       IF selectedFile.isNull
         THEN UNCHANGED <<file, error, pdfInfo, selectedPages, previewing,
                          previewRequest>>
       ELSE IF ~EndsWith(ToLowerCase(selectedFile.name),
                         <<".", "p", "d", "f">>)
         THEN /\ error' = <<"Please select a PDF file">>
              /\ UNCHANGED <<file, pdfInfo, selectedPages, previewing,
                             previewRequest>>
       ELSE /\ previewRequest < MaxInFlight
            /\ file' = selectedFile
            /\ error' = <<>>
            /\ pdfInfo' = NoPdfInfo
            /\ selectedPages' = <<>>
            /\ previewing' = TRUE
            /\ previewRequest' = previewRequest + 1
  /\ pdfOp' = Op("handleFileSelect", "none")
  /\ UNCHANGED <<uploading, uploadRequest>>
  /\ UNCHANGED <<blockVars, inlineVars, roundVars, authVars>>

\* handleFileSelect once its request has settled.
PreviewSettles ==
  /\ previewRequest > 0
  /\ \E settled \in Settlements :
       /\ previewRequest' = previewRequest - 1
       /\ pdfOp' = Op("previewResponse", settled)
       /\ IF settled = "ok"
            THEN \E n \in 1..MaxPages :
                   /\ pdfInfo' = PreviewData(n)
                   /\ selectedPages' = PageNumbers(PreviewData(n))
                   /\ UNCHANGED error
            ELSE /\ error' = <<"Failed to preview PDF: ",
                               ErrorMessage(settled, "Failed to read PDF")>>
                 /\ UNCHANGED <<pdfInfo, selectedPages>>
  /\ previewing' = FALSE
  /\ UNCHANGED <<file, uploading, uploadRequest>>
  /\ UNCHANGED <<blockVars, inlineVars, roundVars, authVars>>

\* togglePage, called with the number of a page shown.
TogglePage ==
  /\ ~pdfInfo.isNull
  /\ \E pageNum \in Range(PageNumbers(pdfInfo)) :
       selectedPages' =
         IF pageNum \in Range(selectedPages)
           THEN SelectSeq(selectedPages, LAMBDA q : q # pageNum)
           ELSE Append(selectedPages, pageNum)
  /\ pdfOp' = Op("togglePage", "none")
  /\ UNCHANGED <<file, previewing, uploading, pdfInfo, error,
                 previewRequest, uploadRequest>>
  /\ UNCHANGED <<blockVars, inlineVars, roundVars, authVars>>

SelectAll ==
  /\ selectedPages' =
       IF ~pdfInfo.isNull THEN PageNumbers(pdfInfo) ELSE selectedPages
  /\ pdfOp' = Op("selectAll", "none")
  /\ UNCHANGED <<file, previewing, uploading, pdfInfo, error,
                 previewRequest, uploadRequest>>
  /\ UNCHANGED <<blockVars, inlineVars, roundVars, authVars>>

SelectNone ==
  /\ selectedPages' = <<>>
  /\ pdfOp' = Op("selectNone", "none")
  /\ UNCHANGED <<file, previewing, uploading, pdfInfo, error,
                 previewRequest, uploadRequest>>
  /\ UNCHANGED <<blockVars, inlineVars, roundVars, authVars>>

\* What prompt returns: null when cancelled, else the text entered.
NoAnswer == [isNull |-> TRUE, chars |-> <<>>]
Answer(s) == [isNull |-> FALSE, chars |-> s]
PromptAnswers ==
  {NoAnswer} \cup
  {Answer(s) : s \in {<<>>, <<"0">>, <<"1">>, <<"x">>, <<SP, "2">>,
                      <<"-", "1">>}}

\* parseInt: leading white space, a sign, then the digits up to the first
\* other character; NaN when there is no digit.
DigitChars == <<"0", "1", "2", "3", "4", "5", "6", "7", "8", "9">>
DigitValue(c) == (CHOOSE k \in 1..10 : DigitChars[k] = c) - 1
RECURSIVE LeadingDigits(_)
LeadingDigits(s) ==
  IF s = <<>> \/ Head(s) \notin Digits THEN <<>>
  ELSE <<Head(s)>> \o LeadingDigits(Tail(s))
RECURSIVE DigitsValue(_, _)
DigitsValue(ds, acc) ==
  IF ds = <<>> THEN acc
  ELSE DigitsValue(Tail(ds), 10 * acc + DigitValue(Head(ds)))
ParseInt(s) ==
  LET t == TrimStart(s)
      signed == t # <<>> /\ Head(t) \in {"-", "+"}
      ds == LeadingDigits(IF signed THEN Tail(t) ELSE t)
      n == DigitsValue(ds, 0)
  IN [isNaN |-> ds = <<>>,
      value |-> IF signed /\ Head(t) = "-" THEN 0 - n ELSE n]

\* The pages the loop of selectRange adds, in the order it adds them.
RangePages(startNum, endNum, total) ==
  LET last == IF endNum <= total THEN endNum ELSE total
  IN [k \in 1..(last - startNum + 1) |-> startNum + k - 1]

SelectRange ==
  /\ \E start \in PromptAnswers : \E end \in PromptAnswers :
       LET startNum == ParseInt(start.chars)
           endNum == ParseInt(end.chars)
           total == IF pdfInfo.isNull THEN 0 ELSE pdfInfo.total_pages
       IN selectedPages' =
            IF /\ ~start.isNull /\ start.chars # <<>>
               /\ ~end.isNull /\ end.chars # <<>>
               /\ ~startNum.isNaN /\ ~endNum.isNaN
               /\ startNum.value <= endNum.value
              THEN RangePages(startNum.value, endNum.value, total)
              ELSE selectedPages
  /\ pdfOp' = Op("selectRange", "none")
  /\ UNCHANGED <<file, previewing, uploading, pdfInfo, error,
                 previewRequest, uploadRequest>>
  /\ UNCHANGED <<blockVars, inlineVars, roundVars, authVars>>

\* A number as text.
RECURSIVE NatString(_)
NatString(n) ==
  IF n < 10 THEN <<DigitChars[n + 1]>>
  ELSE NatString(n \div 10) \o <<DigitChars[(n % 10) + 1]>>
NumberString(n) == IF n < 0 THEN <<"-">> \o NatString(0 - n) ELSE NatString(n)

\* An upload that sends the pages in the order they were selected.
Unsorted(pages) == pages

\* sort((a, b) => a - b).
RECURSIVE SortNumeric(_)
SortNumeric(pages) ==
  IF pages = <<>> THEN <<>>
  ELSE LET least == CHOOSE x \in Range(pages) :
                      \A y \in Range(pages) : x <= y
       IN <<least>> \o
          SortNumeric(SelectSeq(pages, LAMBDA q : q # least))

\* The selected_pages field of the upload form.
SelectedPagesField(pages) ==
  LET sorted == SortNumeric(pages)
  IN Join([k \in 1..Len(sorted) |-> NumberString(sorted[k])], ",")

\* handleUpload up to its fetch.
HandleUpload ==
  /\ IF file.isNull \/ Len(selectedPages) = 0
       THEN /\ error' = <<"Please select at least one page">>
            /\ pdfOp' = Op("handleUpload", "none")
            /\ UNCHANGED <<uploading, uploadRequest>>
       ELSE /\ uploadRequest < MaxInFlight
            /\ uploading' = TRUE
            /\ error' = <<>>
            /\ uploadRequest' = uploadRequest + 1
            /\ pdfOp' =
                 [name |-> "handleUpload", response |-> "none",
                  formData |->
                    [sent |-> TRUE, file |-> file,
                     selected_pages |-> SelectedPagesField(selectedPages)]]
  /\ UNCHANGED <<file, previewing, pdfInfo, selectedPages, previewRequest>>
  /\ UNCHANGED <<blockVars, inlineVars, roundVars, authVars>>

\* handleUpload once its request has settled.
UploadSettles ==
  /\ uploadRequest > 0
  /\ \E settled \in Settlements :
       /\ uploadRequest' = uploadRequest - 1
       /\ pdfOp' = Op("uploadResponse", settled)
       /\ IF settled = "ok"
            THEN /\ file' = NoFile
                 /\ pdfInfo' = NoPdfInfo
                 /\ selectedPages' = <<>>
                 /\ UNCHANGED error
            ELSE /\ error' = <<"Upload failed: ",
                               ErrorMessage(settled, "Upload failed")>>
                 /\ UNCHANGED <<file, pdfInfo, selectedPages>>
  /\ uploading' = FALSE
  /\ UNCHANGED <<previewing, previewRequest>>
  /\ UNCHANGED <<blockVars, inlineVars, roundVars, authVars>>

HandleCancel ==
  /\ file' = NoFile
  /\ pdfInfo' = NoPdfInfo
  /\ selectedPages' = <<>>
  /\ error' = <<>>
  /\ pdfOp' = Op("handleCancel", "none")
  /\ UNCHANGED <<previewing, uploading, previewRequest, uploadRequest>>
  /\ UNCHANGED <<blockVars, inlineVars, roundVars, authVars>>

PdfNext ==
  \/ HandleFileSelect
  \/ PreviewSettles
  \/ TogglePage
  \/ SelectAll
  \/ SelectNone
  \/ SelectRange
  \/ HandleUpload
  \/ UploadSettles
  \/ HandleCancel

PdfSpec == Init /\ [][PdfNext]_vars


\* ----------------------------------------------------- upload properties

\* The number of pages of the previewed PDF, 0 when there is none.
TotalPages == IF pdfInfo.isNull THEN 0 ELSE pdfInfo.total_pages

\* C29: while a PDF is previewed, every page number in selectedPages is one
\* of its pages: it lies between 1 and pdfInfo.total_pages, whatever start
\* and end values were entered in selectRange.
C29_SelectedPagesArePreviewed ==
  ~pdfInfo.isNull =>
    \A k \in 1..Len(selectedPages) : selectedPages[k] \in 1..TotalPages

\* The same for answers to selectRange whose start is at least 1: a step of
\* selectRange with such a start leaves only pages of the previewed PDF.
PositiveRangeStaysInside ==
  [][(/\ pdfOp'.name = "selectRange"
      /\ selectedPages' # <<>>
      /\ selectedPages'[1] >= 1) =>
       \A k \in 1..Len(selectedPages') :
         selectedPages'[k] \in 1..TotalPages]_vars

\* The numbers a selected_pages field lists.
ListedPages(field) ==
  LET items == Split(field, ",")
  IN [k \in 1..Len(items) |-> ParseInt(items[k]).value]

\* C30: handleUpload sends no request when there is no file or no selected
\* page: it sets the error 'Please select at least one page' and changes
\* nothing else.  When it sends, selected_pages lists each selected page
\* once, in ascending order.  file, pdfInfo and selectedPages are reset when
\* the request settles with an ok response; when it fails they are kept, the
\* error is set and uploading is false again; no other step of handleUpload
\* changes them.
C30_UploadGuardOrderAndReset ==
  [][/\ pdfOp'.name = "handleUpload" =>
          /\ <<file, pdfInfo, selectedPages>>' = <<file, pdfInfo, selectedPages>>
          /\ IF file.isNull \/ selectedPages = <<>>
               THEN /\ ~pdfOp'.formData.sent
                    /\ uploadRequest' = uploadRequest
                    /\ error' = <<"Please select at least one page">>
                    /\ <<previewing, uploading, previewRequest>>'
                         = <<previewing, uploading, previewRequest>>
               ELSE LET listed == ListedPages(pdfOp'.formData.selected_pages)
                    IN /\ pdfOp'.formData.sent
                       /\ pdfOp'.formData.file = file
                       /\ uploadRequest' = uploadRequest + 1
                       /\ Range(listed) = Range(selectedPages)
                       /\ \A a, b \in 1..Len(listed) :
                            a < b => listed[a] < listed[b]
     /\ pdfOp'.name = "uploadResponse" =>
          /\ uploading' = FALSE
          /\ IF pdfOp'.response = "ok"
               THEN /\ file' = NoFile
                    /\ pdfInfo' = NoPdfInfo
                    /\ selectedPages' = <<>>
               ELSE /\ <<file, pdfInfo, selectedPages>>'
                         = <<file, pdfInfo, selectedPages>>
                    /\ error' # <<>>
                    /\ error'[1] = "Upload failed: "]_vars

\* An upload has just been sent for pages selected in the order 2, 1.
C30_Witness ==
  /\ pdfOp.name = "handleUpload"
  /\ pdfOp.formData.sent
  /\ selectedPages = <<2, 1>>
  /\ pdfOp.formData.selected_pages = <<"1", ",", "2">>

\* handleUpload has just refused to send for an empty selection.
UploadRefused ==
  /\ pdfOp.name = "handleUpload"
  /\ ~pdfOp.formData.sent
  /\ ~file.isNull
  /\ selectedPages = <<>>
  /\ error = <<"Please select at least one page">>

\* A failed upload has just left the file and the selection in place.
UploadFailedKept ==
  /\ pdfOp.name = "uploadResponse"
  /\ pdfOp.response = "not ok"
  /\ ~file.isNull
  /\ selectedPages # <<>>
  /\ ~uploading

====
